---- MODULE Spec2Model ----
(***************************************************************************)
(* Refresh orchestration of dhi-oss-tracker: the single-flight guard of    *)
(* internal/api (handleRefresh, TriggerRefresh, runRefresh), the job,      *)
(* project, snapshot and notification tables of internal/db, the GitHub    *)
(* client's FetchAllProjects loop and the notification fan-out.            *)
(*                                                                         *)
(* Time is counted in whole days; day 0 is a Monday 00:00 UTC.             *)
(* CURRENT_TIMESTAMP of a row written by a refresh run is abstracted to    *)
(* the id of the job whose run writes it.                                  *)
(***************************************************************************)
EXTENDS Integers, Sequences, FiniteSets, TLC

\* ------------------------------------------------------------------ bounds
\* Number of start attempts made in one behaviour; each is one execution
\* of handleRefresh (an HTTP request) or of TriggerRefresh (a scheduler
\* tick or the startup check).
NumAttempts == 2
\* The day on which the behaviour takes place (a Wednesday of week 1).
NowDay == 9

Callers == 1..NumAttempts
KindOf(c) == IF c % 2 = 1 THEN "http" ELSE "trigger"
JobIds == 1..NumAttempts
\* Repositories the code search can return (owner/name keys).
RepoSeq == <<"A", "B", "C">>
Repos == {RepoSeq[i] : i \in 1..Len(RepoSeq)}
\* The first repository of rs in name order.
FirstRepo(rs) ==
    RepoSeq[CHOOSE i \in 1..Len(RepoSeq) :
                /\ RepoSeq[i] \in rs
                /\ \A k \in 1..(i - 1) : RepoSeq[k] \notin rs]
\* Work done in one behaviour: the number of times the flag is acquired
\* plus the number of repositories the code search returns.
MaxWork == 4
\* External data: the star count the repository-detail endpoint reports
\* for a repository during run j, and the day of the first commit of its
\* Dockerfile (fixed per repository; set below, after startOfWeek).
StarsOf(r, j) == IF r = "A" THEN 1500 ELSE 50 * j
NULL == -1
\* The db.Project that runRefresh 223-232 builds from the details fetched
\* for r in scan v; adopted is the value of its AdoptedAt field.
Scanned(r, v, adopted) ==
    [repo |-> r, url |-> r, stars |-> StarsOf(r, v), description |-> v,
     language |-> v, path |-> v, fileUrl |-> v, sourceType |-> v,
     adopted |-> adopted]

VARIABLES
    refreshRunning,  \* API.refreshRunning, read and written under refreshMu
    caller,          \* one entry per in-flight start attempt
    jobs,            \* refresh_jobs table, indexed by id
    run,             \* one runRefresh goroutine per job id
    projects,        \* projects table, keyed by repo_full_name
    snapshots,       \* refresh_snapshots table
    configs,         \* notification_configs table
    notifLog,        \* notification_logs table
    acquired,        \* history: number of times the flag went false -> true
    released,        \* history: number of writes refreshRunning = false
    createFailed,    \* history: number of CreateRefreshJob errors
    hits,            \* history: number of search hits returned so far
    unit             \* a component exercised on its own (NoUnit otherwise)

vars == <<refreshRunning, caller, jobs, run, projects, snapshots, configs,
          notifLog, acquired, released, createFailed, hits, unit>>

\* ------------------------------------------------------- time (api.go 422)
\* Go's time.Weekday: Sunday = 0 ... Saturday = 6; day 0 is a Monday.
Weekday(t) == (t + 1) % 7

startOfWeek(t) ==
    LET weekday == IF Weekday(t) = 0 THEN 7 ELSE Weekday(t)
    IN  t - (weekday - 1)

\* B was adopted before the current week, A and C inside it.
FirstCommitDay(r) ==
    IF r = "B" THEN startOfWeek(NowDay) - 1 ELSE startOfWeek(NowDay) + 1

\* --------------------------------------------------- refresh_jobs (db.go)
NewJob == [status |-> "pending", started |-> FALSE, completed |-> FALSE,
           found |-> 0, err |-> ""]

CreateRefreshJob(js) == Append(js, NewJob)

\* Variant: the UPDATE has no WHERE clause.
StartRefreshJob_NoWhere(js, id) ==
    [k \in DOMAIN js |-> [js[k] EXCEPT !.status = "running", !.started = TRUE]]

StartRefreshJob(js, id) ==
    [js EXCEPT ![id].status = "running", ![id].started = TRUE]

\* Variant: the UPDATE does not set completed_at.
CompleteRefreshJob_NoTimestamp(js, id, projectsFound) ==
    [js EXCEPT ![id].status = "completed", ![id].found = projectsFound]

CompleteRefreshJob(js, id, projectsFound) ==
    [js EXCEPT ![id].status = "completed", ![id].completed = TRUE,
               ![id].found = projectsFound]

\* Variant: the UPDATE does not set the status column.
FailRefreshJob_NoStatus(js, id, errMsg) ==
    [js EXCEPT ![id].completed = TRUE, ![id].err = errMsg]

FailRefreshJob(js, id, errMsg) ==
    [js EXCEPT ![id].status = "failed", ![id].completed = TRUE,
               ![id].err = errMsg]

\* ------------------------------------------------------ projects (db.go)
NoRow == [id |-> 0]
Present(store) == {r \in DOMAIN store : store[r].id # 0}
NextProjectId(store) == Cardinality(Present(store)) + 1

\* Variant: INSERT OR REPLACE, the conflicting row is deleted and re-inserted.
UpsertProject_Replace(store, p, now) ==
    [store EXCEPT ![p.repo] =
        [id |-> Cardinality(Present(store)) + 1 +
                    (IF store[p.repo].id = 0 THEN 0 ELSE 1),
         url |-> p.url, stars |-> p.stars,
         description |-> p.description, language |-> p.language,
         path |-> p.path, fileUrl |-> p.fileUrl,
         sourceType |-> p.sourceType,
         adopted |-> p.adopted, commit |-> FALSE,
         firstSeen |-> now, lastSeen |-> now,
         created |-> now, updated |-> now]]

\* Variant: the conflict branch also resets first_seen_at.
UpsertProject_ResetFirstSeen(store, p, now) ==
    IF store[p.repo].id = 0
    THEN [store EXCEPT ![p.repo] =
            [id |-> NextProjectId(store), url |-> p.url, stars |-> p.stars,
             description |-> p.description, language |-> p.language,
             path |-> p.path, fileUrl |-> p.fileUrl,
             sourceType |-> p.sourceType,
             adopted |-> p.adopted, commit |-> FALSE,
             firstSeen |-> now, lastSeen |-> now,
             created |-> now, updated |-> now]]
    ELSE [store EXCEPT ![p.repo].stars = p.stars,
                       ![p.repo].description = p.description,
                       ![p.repo].language = p.language,
                       ![p.repo].path = p.path,
                       ![p.repo].fileUrl = p.fileUrl,
                       ![p.repo].sourceType = p.sourceType,
                       ![p.repo].adopted =
                           IF store[p.repo].adopted # NULL
                           THEN store[p.repo].adopted ELSE p.adopted,
                       ![p.repo].firstSeen = now,
                       ![p.repo].lastSeen = now,
                       ![p.repo].updated = now]

\* Variant: adopted_at = excluded.adopted_at, without COALESCE.
UpsertProject_NoCoalesce(store, p, now) ==
    IF store[p.repo].id = 0
    THEN [store EXCEPT ![p.repo] =
            [id |-> NextProjectId(store), url |-> p.url, stars |-> p.stars,
             description |-> p.description, language |-> p.language,
             path |-> p.path, fileUrl |-> p.fileUrl,
             sourceType |-> p.sourceType,
             adopted |-> p.adopted, commit |-> FALSE,
             firstSeen |-> now, lastSeen |-> now,
             created |-> now, updated |-> now]]
    ELSE [store EXCEPT ![p.repo].stars = p.stars,
                       ![p.repo].description = p.description,
                       ![p.repo].language = p.language,
                       ![p.repo].path = p.path,
                       ![p.repo].fileUrl = p.fileUrl,
                       ![p.repo].sourceType = p.sourceType,
                       ![p.repo].adopted = p.adopted,
                       ![p.repo].lastSeen = now,
                       ![p.repo].updated = now]

\* INSERT ... ON CONFLICT(repo_full_name) DO UPDATE; p.AdoptedAt is the
\* value bound to the adopted_at parameter (nil in runRefresh).
UpsertProject(store, p, now) ==
    IF store[p.repo].id = 0
    THEN [store EXCEPT ![p.repo] =
            [id |-> NextProjectId(store), url |-> p.url, stars |-> p.stars,
             description |-> p.description, language |-> p.language,
             path |-> p.path, fileUrl |-> p.fileUrl,
             sourceType |-> p.sourceType,
             adopted |-> p.adopted, commit |-> FALSE,
             firstSeen |-> now, lastSeen |-> now,
             created |-> now, updated |-> now]]
    ELSE [store EXCEPT ![p.repo].stars = p.stars,
                       ![p.repo].description = p.description,
                       ![p.repo].language = p.language,
                       ![p.repo].path = p.path,
                       ![p.repo].fileUrl = p.fileUrl,
                       ![p.repo].sourceType = p.sourceType,
                       ![p.repo].adopted =
                           IF store[p.repo].adopted # NULL
                           THEN store[p.repo].adopted ELSE p.adopted,
                       ![p.repo].lastSeen = now,
                       ![p.repo].updated = now]

RepoOfId(store, id) == CHOOSE r \in DOMAIN store : store[r].id = id

GetProjectsWithoutAdoptionDate(store) ==
    {store[r].id : r \in {q \in Present(store) : store[q].adopted = NULL}}

UpdateProjectAdoption(store, id, adoptedAt, now) ==
    [r \in DOMAIN store |->
        IF store[r].id = id /\ id # 0
        THEN [store[r] EXCEPT !.adopted = adoptedAt, !.commit = TRUE,
                              !.updated = now]
        ELSE store[r]]

\* WHERE adopted_at IS NOT NULL AND adopted_at > ?
NewSince(store, since) ==
    {r \in Present(store) : store[r].adopted # NULL /\ store[r].adopted > since}

\* ORDER BY adopted_at DESC (ties in table order).
RECURSIVE OrderNew(_, _)
OrderNew(store, rs) ==
    IF rs = {} THEN <<>>
    ELSE LET first == CHOOSE r \in rs : \A q \in rs :
                         \/ store[r].adopted > store[q].adopted
                         \/ /\ store[r].adopted = store[q].adopted
                            /\ store[r].id <= store[q].id
         IN  <<first>> \o OrderNew(store, rs \ {first})

GetNewProjectsSince(store, since) == OrderNew(store, NewSince(store, since))

\* ----------------------------------------------------- snapshots (db.go)
RECURSIVE SumStars(_, _)
SumStars(store, rs) ==
    IF rs = {} THEN 0
    ELSE LET r == CHOOSE q \in rs : TRUE
         IN  store[r].stars + SumStars(store, rs \ {r})

GetStats(store) ==
    [total   |-> Cardinality(Present(store)),
     stars   |-> SumStars(store, Present(store)),
     popular |-> Cardinality({r \in Present(store) : store[r].stars >= 1000}),
     notable |-> Cardinality({r \in Present(store) :
                                 store[r].stars >= 100 /\ store[r].stars < 1000})]

RecordSnapshot(snaps, store) == Append(snaps, GetStats(store))

\* ------------------------------------------- notifications (notifications.go)
GetEnabledNotificationConfigs(cfgs) ==
    LET ids == {c \in DOMAIN cfgs : cfgs[c].enabled}
        RECURSIVE Desc(_)
        Desc(s) == IF s = {} THEN <<>>
                   ELSE LET m == CHOOSE x \in s : \A y \in s : x >= y
                        IN  <<m>> \o Desc(s \ {m})
    IN  Desc(ids)

\* Variant: the constructor's validation of the payload is skipped.
createProviderOK_AnyPayload(cfg) == cfg.type \in {"slack", "email"}

\* createProvider: a provider is built only for a known type whose
\* payload passes the constructor's validation.
createProviderOK(cfg) == cfg.type \in {"slack", "email"} /\ cfg.valid

LogRow(configId, projectId, status) ==
    [config |-> configId, project |-> projectId, status |-> status]

\* Variant: the loop over the projects ends at the first failed send.
AfterSend_StopOnFailure(ok, rest) == IF ok THEN rest ELSE <<>>

\* The loop over the projects goes on to the next project whatever
\* provider.Send returned.
AfterSend(ok, rest) == rest

\* Variant: a provider that cannot be constructed ends the loop.
AfterProviderError_Stop(rest) == <<>>

\* `continue` after createProvider failed: on to the next config.
AfterProviderError(rest) == rest

\* Variant: last_triggered_at is written only if some send succeeded.
TouchTriggered_IfSent(anySent) == anySent

\* UpdateNotificationTriggered is called after the loop over the
\* projects whatever the sends returned.
TouchTriggered(anySent) == TRUE

\* Variant: the test for an empty list is missing.
NothingToNotify_Never(ps) == FALSE

\* if len(projects) == 0 { return nil }
NothingToNotify(ps) == Len(ps) = 0

\* logNotification: the row is appended unless the insert fails; the
\* error of CreateNotificationLog is dropped.  lost is the set of
\* <<config id, project id>> whose insert fails.
logNotification(log, configId, projectId, status, lost) ==
    IF <<configId, projectId>> \in lost THEN log
    ELSE Append(log, LogRow(configId, projectId, status))

\* The inner loop of NotifyNewProjects for one config: one Send and one
\* logNotification per project; sendOK[<<c, r>>] is the outcome of
\* provider.Send.  acc = [log, sends, anySent].
RECURSIVE SendAll(_, _, _, _, _, _)
SendAll(acc, store, c, ps, sendOK, lost) ==
    IF ps = <<>> THEN acc
    ELSE LET r  == Head(ps)
             ok == sendOK[<<c, r>>]
         IN  SendAll([log     |-> logNotification(acc.log, c, store[r].id,
                                     IF ok THEN "sent" ELSE "failed", lost),
                      sends   |-> Append(acc.sends, <<c, r>>),
                      anySent |-> acc.anySent \/ ok],
                     store, c, AfterSend(ok, Tail(ps)), sendOK, lost)

\* The loop of NotifyNewProjects over the enabled configs cs (a sequence
\* of ids); untrig is the set of configs whose UpdateNotificationTriggered
\* fails (its error is dropped).  acc = [log, cfgs, sends].
RECURSIVE NotifyConfigs(_, _, _, _, _, _, _, _)
NotifyConfigs(acc, store, cs, ps, sendOK, lost, untrig, now) ==
    IF cs = <<>> THEN acc
    ELSE LET c == Head(cs)
         IN  IF ~createProviderOK(acc.cfgs[c])
             THEN NotifyConfigs(
                      [acc EXCEPT !.log = logNotification(acc.log, c, NULL,
                                                          "failed", lost)],
                      store, AfterProviderError(Tail(cs)), ps, sendOK, lost,
                      untrig, now)
             ELSE LET sent == SendAll([log |-> acc.log, sends |-> acc.sends,
                                       anySent |-> FALSE],
                                      store, c, ps, sendOK, lost)
                  IN  NotifyConfigs(
                          [log   |-> sent.log,
                           cfgs  |-> IF TouchTriggered(sent.anySent)
                                        /\ c \notin untrig
                                     THEN [acc.cfgs EXCEPT
                                             ![c].lastTriggered = now]
                                     ELSE acc.cfgs,
                           sends |-> sent.sends],
                          store, Tail(cs), ps, sendOK, lost, untrig, now)

\* NotifyNewProjects(projects): the new log and configs tables, the
\* error returned, whether the configs were loaded, and the sends made.
NotifyNewProjects(log, cfgs, store, ps, loadOK, sendOK, lost, untrig, now) ==
    IF NothingToNotify(ps)
    THEN [log |-> log, cfgs |-> cfgs, sends |-> <<>>, err |-> "",
          loaded |-> FALSE]
    ELSE IF ~loadOK
    THEN [log |-> log, cfgs |-> cfgs, sends |-> <<>>,
          err |-> "getting enabled notification configs", loaded |-> TRUE]
    ELSE LET res == NotifyConfigs([log |-> log, cfgs |-> cfgs,
                                   sends |-> <<>>], store,
                                  GetEnabledNotificationConfigs(cfgs), ps,
                                  sendOK, lost, untrig, now)
         IN  [log |-> res.log, cfgs |-> res.cfgs, sends |-> res.sends,
              err |-> "", loaded |-> TRUE]

\* ------------------------------------------------ single-flight guard (api.go)
\* The check made under refreshMu: `if a.refreshRunning { ... return }`.
CanAcquire(running) == ~running

NoUnit == [kind |-> "none"]

IdleRun == [pc |-> "none", ctxDone |-> FALSE, repos |-> {}, found |-> {},
            fetched |-> {}, failed |-> {}, todo |-> {}, upOK |-> {},
            err |-> "", bf |-> {},
            phases |-> {}, stuck |-> FALSE, pre |-> <<>>]

\* What a run can see of the durable state before it starts working.
Durable == <<projects, notifLog, snapshots>>

\* One enabled chat config; the management interface is not part of a run.
InitConfigs == [c \in {1} |-> [type |-> "slack", enabled |-> TRUE,
                               valid |-> TRUE, lastTriggered |-> NULL]]

\* caller[c] is the position of start attempt c: "idle" (not yet made),
\* "create" (flag acquired, CreateRefreshJob not yet called), or its
\* outcome: "accepted" (job id returned / true), "already" (already
\* running / false), "error" (HTTP 500 / false).
Init ==
    /\ refreshRunning = FALSE
    /\ caller = [c \in Callers |-> "idle"]
    /\ jobs = <<>>
    /\ run = [j \in JobIds |-> IdleRun]
    /\ projects = [r \in Repos |-> NoRow]
    /\ snapshots = <<>>
    /\ configs = InitConfigs
    /\ notifLog = <<>>
    /\ acquired = 0
    /\ released = 0
    /\ createFailed = 0
    /\ hits = 0
    /\ unit = NoUnit

\* Variant: the `return` of the "already running" branch is missing.
AfterCheck_NoReturn(running) == "create"

\* Where the caller goes after the critical section: on to
\* CreateRefreshJob, or back to its client with "already running"
\* (the `return` at handleRefresh 170 / TriggerRefresh 330).
AfterCheck(running) == IF CanAcquire(running) THEN "create" ELSE "already"

\* handleRefresh 161-173 / TriggerRefresh 326-333: lock, test, set, unlock.
StartAttempt(c) ==
    /\ caller[c] = "idle"
    /\ CanAcquire(refreshRunning) => acquired + hits < MaxWork
    /\ refreshRunning' = (refreshRunning \/ CanAcquire(refreshRunning))
    /\ acquired' = IF CanAcquire(refreshRunning) THEN acquired + 1 ELSE acquired
    /\ caller' = [caller EXCEPT ![c] = AfterCheck(refreshRunning)]
    /\ UNCHANGED <<jobs, run, projects, snapshots, configs, notifLog,
                   released, createFailed, hits, unit>>

\* handleRefresh 176, 187-194 / TriggerRefresh 335, 344-345:
\* CreateRefreshJob succeeds, the run is launched, the caller is answered.
CreateJobOK(c) ==
    /\ caller[c] = "create"
    /\ Len(jobs) < NumAttempts
    /\ jobs' = CreateRefreshJob(jobs)
    /\ run' = [run EXCEPT ![Len(jobs) + 1] = [IdleRun EXCEPT !.pc = "start"]]
    /\ caller' = [caller EXCEPT ![c] = "accepted"]
    /\ UNCHANGED <<refreshRunning, projects, snapshots, configs, notifLog,
                   acquired, released, createFailed, hits, unit>>

\* handleRefresh 177-184 / TriggerRefresh 336-342: CreateRefreshJob returns
\* an error; the caller clears the flag itself and reports the error
\* (HTTP 500, resp. `return false`).
CreateJobErr(c) ==
    /\ caller[c] = "create"
    /\ refreshRunning' = FALSE
    /\ released' = released + 1
    /\ createFailed' = createFailed + 1
    /\ caller' = [caller EXCEPT ![c] = "error"]
    /\ UNCHANGED <<jobs, run, projects, snapshots, configs, notifLog, acquired,
                   hits, unit>>

\* ------------------------------------------------------ runRefresh (api.go)
\* Variant: the flag is cleared at the end of the function body instead
\* of in a deferred function, so the early returns skip it.
ExitRun_NoDefer(path) == IF path = "end" THEN "release" ELSE "done"

\* The deferred function of runRefresh 198-202 runs on every return, so
\* every exit path of a run passes through the release step.
ExitRun(path) == "release"

\* Variant: the `return` after FailRefreshJob (runRefresh 218) is missing.
RunNext_NoReturn(at, ok) ==
    CASE at = "start"    -> IF ok THEN "search" ELSE ExitRun("start")
      [] at = "fetch"    -> IF ok THEN "upsert" ELSE "fail"
      [] at = "fail"     -> "upsert"
      [] at = "complete" -> "bfquery"
      [] at = "bfquery"  -> IF ok THEN "backfill" ELSE "notify"
      [] at = "backfill" -> "notify"
      [] at = "notify"   -> "snapshot"
      [] at = "snapshot" -> ExitRun("end")

\* Variant: the run goes on to the snapshot after FailRefreshJob.
RunNext_SnapshotAfterFail(at, ok) ==
    CASE at = "start"    -> IF ok THEN "search" ELSE ExitRun("start")
      [] at = "fetch"    -> IF ok THEN "upsert" ELSE "fail"
      [] at = "fail"     -> "snapshot"
      [] at = "complete" -> "bfquery"
      [] at = "bfquery"  -> IF ok THEN "backfill" ELSE "notify"
      [] at = "backfill" -> "notify"
      [] at = "notify"   -> "snapshot"
      [] at = "snapshot" -> ExitRun("end")

\* Variant: the notification is made before the adoption backfill.
RunNext_NotifyFirst(at, ok) ==
    CASE at = "start"    -> IF ok THEN "search" ELSE ExitRun("start")
      [] at = "fetch"    -> IF ok THEN "upsert" ELSE "fail"
      [] at = "fail"     -> ExitRun("crawl")
      [] at = "complete" -> "notify"
      [] at = "notify"   -> "bfquery"
      [] at = "bfquery"  -> IF ok THEN "backfill" ELSE "snapshot"
      [] at = "backfill" -> "snapshot"
      [] at = "snapshot" -> ExitRun("end")

\* Control flow of runRefresh after the call made at step `at` returned
\* (ok = the call returned a nil error).
RunNext(at, ok) ==
    CASE at = "start"    -> IF ok THEN "search" ELSE ExitRun("start")
      [] at = "fetch"    -> IF ok THEN "upsert" ELSE "fail"
      [] at = "fail"     -> ExitRun("crawl")
      [] at = "complete" -> "bfquery"
      [] at = "bfquery"  -> IF ok THEN "backfill" ELSE "notify"
      [] at = "backfill" -> "notify"
      [] at = "notify"   -> "snapshot"
      [] at = "snapshot" -> ExitRun("end")

\* Variant: an error of GetRepoDetails is returned to the caller.
DetailDecision_AbortOnErr(first, retry) ==
    CASE first = "ok"                    -> "append"
      [] first = "rate" /\ retry = "ok"  -> "append"
      [] OTHER                           -> "abort"

\* What the detail loop of FetchAllProjects (214-231) does with one
\* repository: first and retry are the results of GetRepoDetails
\* ("ok", "rate" = error text containing "rate limited", "err" = any other
\* error; retry is "none" when no second request is made).
DetailDecision(first, retry) ==
    CASE first = "ok"                    -> "append"
      [] first = "rate" /\ retry = "ok"  -> "append"
      [] OTHER                           -> "continue"

\* Results GetRepoDetails / GetFileFirstCommit can give for one repository.
CallResults ==
    {<<"ok", "none">>, <<"err", "none">>, <<"rate", "ok">>,
     <<"rate", "rate">>, <<"rate", "err">>}

\* The call (with its one retry after a rate limit) ended in an error.
CallFailed(res) == res \notin {<<"ok", "none">>, <<"rate", "ok">>}

\* len(projects), the count handed to CompleteRefreshJob at runRefresh 238.
CompletedCount(r) == Cardinality(r.fetched)

Live(j) == run[j].pc \notin {"none", "done"}
CtxPcs == {"search", "detail", "fail", "upsert", "bfquery", "backfill",
           "notify", "snapshot"}

\* runRefresh 206-212: StartRefreshJob, then the 10 minute context.
StartJob(j) ==
    /\ run[j].pc = "start"
    /\ \E ok \in BOOLEAN :
        /\ jobs' = IF ok THEN StartRefreshJob(jobs, j) ELSE jobs
        /\ run' = [run EXCEPT ![j].pc = RunNext("start", ok),
                              ![j].pre = Durable]
    /\ UNCHANGED <<refreshRunning, caller, projects, snapshots, configs,
                   notifLog, acquired, released, createFailed, hits, unit>>

\* The deadline of context.WithTimeout passes.
Timeout(j) ==
    /\ run[j].pc \in CtxPcs
    /\ ~run[j].ctxDone
    /\ run' = [run EXCEPT ![j].ctxDone = TRUE]
    /\ UNCHANGED <<refreshRunning, caller, jobs, projects, snapshots, configs,
                   notifLog, acquired, released, createFailed, hits, unit>>

\* FetchAllProjects 190-193: SearchDHIDockerfiles returns the map of
\* repositories, or an error (cancelled context, non-rate-limit API error).
Search(j) ==
    /\ run[j].pc = "search"
    /\ \/ /\ ~run[j].ctxDone
          /\ \E rs \in SUBSET Repos :
                /\ acquired + hits + Cardinality(rs) <= MaxWork
                /\ hits' = hits + Cardinality(rs)
                /\ run' = [run EXCEPT ![j].pc = "detail", ![j].repos = rs,
                                      ![j].found = rs]
       \/ /\ ~run[j].ctxDone
          /\ run' = [run EXCEPT ![j].pc = RunNext("fetch", FALSE),
                                ![j].err = "searching dockerfiles: API error"]
          /\ UNCHANGED hits
       \/ /\ run[j].ctxDone
          /\ run' = [run EXCEPT ![j].pc = RunNext("fetch", FALSE),
                                ![j].err = "searching dockerfiles: context"]
          /\ UNCHANGED hits
    /\ UNCHANGED <<refreshRunning, caller, jobs, projects, snapshots, configs,
                   notifLog, acquired, released, createFailed, unit>>

\* FetchAllProjects 200-247: one iteration of the detail loop (Go iterates
\* the map in an unspecified order), or the return after the loop.
Detail(j) ==
    /\ run[j].pc = "detail"
    /\ IF run[j].repos = {}
       THEN run' = [run EXCEPT ![j].pc = RunNext("fetch", TRUE),
                               ![j].todo = run[j].fetched]
       ELSE IF run[j].ctxDone
       THEN run' = [run EXCEPT ![j].pc = RunNext("fetch", FALSE),
                               ![j].err = "context"]
       ELSE \E r \in run[j].repos, res \in CallResults :
              LET d == DetailDecision(res[1], res[2])
              IN  run' = [run EXCEPT
                    ![j].pc = IF d = "abort" THEN RunNext("fetch", FALSE)
                              ELSE "detail",
                    ![j].repos = @ \ {r},
                    ![j].failed = IF CallFailed(res) THEN @ \cup {r} ELSE @,
                    ![j].fetched = IF d = "append" THEN @ \cup {r} ELSE @]
    /\ UNCHANGED <<refreshRunning, caller, jobs, projects, snapshots, configs,
                   notifLog, acquired, released, createFailed, hits, unit>>

\* runRefresh 215-219: FailRefreshJob (its error is not looked at), return.
Fail(j) ==
    /\ run[j].pc = "fail"
    /\ \E ok \in BOOLEAN :
        /\ jobs' = IF ok THEN FailRefreshJob(jobs, j, run[j].err) ELSE jobs
        /\ run' = [run EXCEPT ![j].pc = RunNext("fail", ok),
                              ![j].stuck = ~ok]
    /\ UNCHANGED <<refreshRunning, caller, projects, snapshots, configs,
                   notifLog, acquired, released, createFailed, hits, unit>>

\* runRefresh 222-236: one iteration of the upsert loop.  The slice is in
\* the order of the detail loop, which is any order; the repositories
\* fetched in one run are taken in name order here.
Upsert(j) ==
    /\ run[j].pc = "upsert"
    /\ run[j].todo # {}
    /\ \E r \in {FirstRepo(run[j].todo)}, ok \in BOOLEAN :
        /\ projects' = IF ok
                       THEN UpsertProject(projects, Scanned(r, j, NULL), j)
                       ELSE projects
        /\ run' = [run EXCEPT ![j].todo = @ \ {r},
                              ![j].upOK = IF ok THEN @ \cup {r} ELSE @,
                              ![j].phases = @ \cup {"upsert"}]
    /\ UNCHANGED <<refreshRunning, caller, jobs, snapshots, configs,
                   notifLog, acquired, released, createFailed, hits, unit>>

\* runRefresh 238-240: CompleteRefreshJob; an error is only logged.
Complete(j) ==
    /\ run[j].pc = "upsert"
    /\ run[j].todo = {}
    /\ \E ok \in BOOLEAN :
        /\ jobs' = IF ok THEN CompleteRefreshJob(jobs, j, CompletedCount(run[j]))
                   ELSE jobs
        /\ run' = [run EXCEPT ![j].pc = RunNext("complete", ok),
                              ![j].stuck = ~ok]
    /\ UNCHANGED <<refreshRunning, caller, projects, snapshots, configs,
                   notifLog, acquired, released, createFailed, hits, unit>>

\* fetchAdoptionDates 269-278: the list of projects without adoption date.
BackfillQuery(j) ==
    /\ run[j].pc = "bfquery"
    /\ \E ok \in BOOLEAN :
        run' = [run EXCEPT ![j].pc = RunNext("bfquery", ok),
                           ![j].bf = IF ok
                                     THEN GetProjectsWithoutAdoptionDate(projects)
                                     ELSE {},
                           ![j].phases = @ \cup {"backfill"}]
    /\ UNCHANGED <<refreshRunning, caller, jobs, projects, snapshots, configs,
                   notifLog, acquired, released, createFailed, hits, unit>>

\* The rows of the query come in table (id) order.
FirstId(ids) == CHOOSE i \in ids : \A k \in ids : i <= k

\* fetchAdoptionDates 282-317: one iteration of the loop, or its end (list
\* exhausted, or context found done at the top of an iteration).
Backfill(j) ==
    /\ run[j].pc = "backfill"
    /\ IF run[j].bf = {} \/ run[j].ctxDone
       THEN /\ run' = [run EXCEPT ![j].pc = RunNext("backfill", TRUE),
                                  ![j].bf = {}]
            /\ UNCHANGED projects
       ELSE \E id \in {FirstId(run[j].bf)}, res \in CallResults,
               ok \in BOOLEAN :
              /\ run' = [run EXCEPT ![j].bf = @ \ {id}]
              /\ projects' =
                    IF DetailDecision(res[1], res[2]) = "append" /\ ok
                    THEN UpdateProjectAdoption(projects, id,
                             FirstCommitDay(RepoOfId(projects, id)), j)
                    ELSE projects
    /\ UNCHANGED <<refreshRunning, caller, jobs, snapshots, configs,
                   notifLog, acquired, released, createFailed, hits, unit>>

\* runRefresh 245-255: this week's adoptions are handed to the dispatcher.
\* The writes to the notification tables succeed here; their failures are
\* exercised in SpecNotify.
Notify(j) ==
    /\ run[j].pc = "notify"
    /\ run' = [run EXCEPT ![j].pc = RunNext("notify", TRUE),
                          ![j].phases = @ \cup {"notify"}]
    /\ \E queryOK \in BOOLEAN, loadOK \in BOOLEAN :
         LET ps == GetNewProjectsSince(projects, startOfWeek(NowDay))
         IN  IF queryOK /\ Len(ps) > 0
             THEN \E sendOK \in [(DOMAIN configs) \X NewSince(projects,
                                     startOfWeek(NowDay)) -> BOOLEAN] :
                    LET res == NotifyNewProjects(notifLog, configs, projects,
                                                 ps, loadOK, sendOK, {}, {}, j)
                    IN  /\ notifLog' = res.log
                        /\ configs' = res.cfgs
             ELSE UNCHANGED <<notifLog, configs>>
    /\ UNCHANGED <<refreshRunning, caller, jobs, projects, snapshots,
                   acquired, released, createFailed, hits, unit>>

\* runRefresh 257-262: RecordSnapshot; an error is only logged.
Snapshot(j) ==
    /\ run[j].pc = "snapshot"
    /\ \E ok \in BOOLEAN :
        snapshots' = IF ok THEN RecordSnapshot(snapshots, projects)
                     ELSE snapshots
    /\ run' = [run EXCEPT ![j].pc = RunNext("snapshot", TRUE),
                          ![j].phases = @ \cup {"snapshot"}]
    /\ UNCHANGED <<refreshRunning, caller, jobs, projects, configs,
                   notifLog, acquired, released, createFailed, hits, unit>>

\* runRefresh 198-202: the deferred release of the flag; the goroutine ends.
Release(j) ==
    /\ run[j].pc = "release"
    /\ refreshRunning' = FALSE
    /\ released' = released + 1
    /\ run' = [run EXCEPT ![j] = [IdleRun EXCEPT !.pc = "done",
                                                 !.stuck = run[j].stuck]]
    /\ UNCHANGED <<caller, jobs, projects, snapshots, configs, notifLog,
                   acquired, createFailed, hits, unit>>

Next ==
    \/ \E c \in Callers : StartAttempt(c)
    \/ \E c \in Callers : CreateJobOK(c)
    \/ \E c \in Callers : CreateJobErr(c)
    \/ \E j \in JobIds : StartJob(j)
    \/ \E j \in JobIds : Timeout(j)
    \/ \E j \in JobIds : Search(j)
    \/ \E j \in JobIds : Detail(j)
    \/ \E j \in JobIds : Fail(j)
    \/ \E j \in JobIds : Upsert(j)
    \/ \E j \in JobIds : Complete(j)
    \/ \E j \in JobIds : BackfillQuery(j)
    \/ \E j \in JobIds : Backfill(j)
    \/ \E j \in JobIds : Notify(j)
    \/ \E j \in JobIds : Snapshot(j)
    \/ \E j \in JobIds : Release(j)

Spec == Init /\ [][Next]_vars

\* ============================================== the record store on its own
\* The projects table under sequences of its three writers: the upsert
\* loop of runRefresh for one scan, a single UpsertProject call with any
\* Project value, and one UpdateProjectAdoption of the backfill.  The
\* clock stands for CURRENT_TIMESTAMP; unit remembers the last operation,
\* the table before it, and the data of the last whole pass.
MaxOps == 3
NumScans == 2
StoreRepos == {"A", "B"}
Candidates == {NULL, 3, 5}
Others == <<refreshRunning, caller, jobs, run, snapshots, configs, notifLog,
            acquired, released, createFailed, hits>>
NoPass == [rs |-> {}, v |-> 0, ok |-> {}]

\* runRefresh 222-236 for the scanned repositories rs of scan v; the
\* upserts of the repositories outside ok return a storage error.
RECURSIVE MergeAll(_, _, _, _, _)
MergeAll(store, rs, ok, v, now) ==
    IF rs = {} THEN store
    ELSE LET r == FirstRepo(rs)
         IN  MergeAll(IF r \in ok
                      THEN UpsertProject(store, Scanned(r, v, NULL), now)
                      ELSE store,
                      rs \ {r}, ok, v, now)

InitStore ==
    /\ Init!1 /\ Init!2 /\ Init!3 /\ Init!4 /\ Init!5 /\ Init!6 /\ Init!7
    /\ Init!8 /\ Init!9 /\ Init!10 /\ Init!11 /\ Init!12
    /\ unit = [kind |-> "store", op |-> "none", pre |-> projects,
               p |-> Scanned("A", 1, NULL), pass |-> NoPass,
               last |-> NoPass, clock |-> 0]

StoreMerge ==
    /\ unit.kind = "store" /\ unit.clock < MaxOps
    /\ \E rs \in SUBSET StoreRepos \ {{}}, v \in 1..NumScans :
       \E ok \in SUBSET rs :
         /\ projects' = MergeAll(projects, rs, ok, v, unit.clock + 1)
         /\ unit' = [unit EXCEPT !.op = "merge", !.pre = projects,
                                 !.pass = [rs |-> rs, v |-> v, ok |-> ok],
                                 !.last = unit.pass,
                                 !.clock = @ + 1]
    /\ UNCHANGED Others

StoreUpsert ==
    /\ unit.kind = "store" /\ unit.clock < MaxOps
    /\ \E r \in StoreRepos, v \in 1..NumScans, cand \in Candidates :
         /\ projects' = UpsertProject(projects, Scanned(r, v, cand),
                                      unit.clock + 1)
         /\ unit' = [unit EXCEPT !.op = "upsert", !.pre = projects,
                                 !.p = Scanned(r, v, cand),
                                 !.pass = NoPass, !.last = NoPass,
                                 !.clock = @ + 1]
    /\ UNCHANGED Others

\* One iteration of the loop of fetchAdoptionDates that reaches
\* UpdateProjectAdoption, for a row its query returned.
StoreAdopt ==
    /\ unit.kind = "store" /\ unit.clock < MaxOps
    /\ \E id \in GetProjectsWithoutAdoptionDate(projects),
          date \in Candidates \ {NULL} :
         /\ projects' = UpdateProjectAdoption(projects, id, date,
                                              unit.clock + 1)
         /\ unit' = [unit EXCEPT !.op = "adopt", !.pre = projects,
                                 !.clock = @ + 1]
    /\ UNCHANGED Others

NextStore ==
    \/ StoreMerge
    \/ StoreUpsert
    \/ StoreAdopt

SpecStore == InitStore /\ [][NextStore]_vars

\* ================================================ the search crawler on its own
\* Client.SearchDHIDockerfiles against a search source chosen at the
\* start: the source has n pages of results, all full except perhaps the
\* last, and reports a total count with every page.  unit holds the
\* locals of the function (page, repos), the context, and a history of
\* the requests made, their results and the sleeps taken.
PerPage == 100
MaxPage == 10
MaxSourcePages == 11
MaxRateLimits == 2
PartialCount == 50

Sources ==
    {[n |-> n, lastCount |-> c, total |-> t] :
        n \in 1..MaxSourcePages, c \in {PartialCount, PerPage},
        t \in {150, 5000}}
    \cup {[n |-> n, lastCount |-> c, total |-> (n - 1) * PerPage + c] :
             n \in 1..MaxSourcePages, c \in {PartialCount, PerPage}}

\* len(searchResp.Items) of the response for page pg.
ItemsOn(src, pg) ==
    IF pg < src.n THEN PerPage ELSE IF pg = src.n THEN src.lastCount ELSE 0

\* Three of the hits of page pg, numbered in the order of the listing: the
\* third is another file of the repository of the first, and consecutive
\* pages share a repository.
HitsOn(src, pg) ==
    IF ItemsOn(src, pg) = 0 THEN <<>>
    ELSE << [repo |-> RepoSeq[((pg - 1) % Len(RepoSeq)) + 1],
             path |-> 3 * pg - 2],
            [repo |-> RepoSeq[(pg % Len(RepoSeq)) + 1], path |-> 3 * pg - 1],
            [repo |-> RepoSeq[((pg - 1) % Len(RepoSeq)) + 1],
             path |-> 3 * pg] >>

NoRepos == [r \in Repos |-> 0]

\* Variant: a later hit replaces the path of its repository.
RECURSIVE MergeItems_KeepLast(_, _)
MergeItems_KeepLast(repos, items) ==
    IF items = <<>> THEN repos
    ELSE MergeItems_KeepLast([repos EXCEPT ![Head(items).repo] =
                                               Head(items).path],
                             Tail(items))

\* for _, item := range searchResp.Items: the first path seen is kept.
RECURSIVE MergeItems(_, _)
MergeItems(repos, items) ==
    IF items = <<>> THEN repos
    ELSE MergeItems(IF repos[Head(items).repo] = 0
                    THEN [repos EXCEPT ![Head(items).repo] = Head(items).path]
                    ELSE repos,
                    Tail(items))

\* Variant: the short-page test is missing.
ShouldStop_TotalOnly(count, pg, total) == pg * PerPage >= total

\* len(searchResp.Items) < perPage || page*perPage >= searchResp.TotalCount
ShouldStop(count, pg, total) == count < PerPage \/ pg * PerPage >= total

\* Variant: the ceiling is tested one page late.
AtCeiling_Late(pg) == pg > MaxPage

\* if page >= 10
AtCeiling(pg) == pg >= MaxPage

\* Variant: the page advances on a rate-limit signal as well.
PageAfter_Advance(res, pg) == pg + 1

\* `continue` after a rate limit keeps the page; page++ after a page
\* that was merged and was not the last.
PageAfter(res, pg) == IF res = "rate" THEN pg ELSE pg + 1

InitCrawl ==
    /\ Init!1 /\ Init!2 /\ Init!3 /\ Init!4 /\ Init!5 /\ Init!6 /\ Init!7
    /\ Init!8 /\ Init!9 /\ Init!10 /\ Init!11 /\ Init!12
    /\ \E src \in Sources :
         unit = [kind |-> "crawl", src |-> src, pc |-> "top", page |-> 1,
                 repos |-> NoRepos, err |-> "", ctxDone |-> FALSE,
                 requested |-> <<>>, results |-> <<>>,
                 backoffs |-> 0, delays |-> 0]

\* The caller's context is cancelled or its deadline passes.
CrawlCancel ==
    /\ unit.kind = "crawl" /\ unit.pc = "top" /\ ~unit.ctxDone
    /\ unit' = [unit EXCEPT !.ctxDone = TRUE]
    /\ UNCHANGED <<projects, Others>>

\* The select at the top of the loop finds the context done.
CrawlCtxReturn ==
    /\ unit.kind = "crawl" /\ unit.pc = "top" /\ unit.ctxDone
    /\ unit' = [unit EXCEPT !.pc = "returned", !.err = "context"]
    /\ UNCHANGED <<projects, Others>>

\* doRequest answers 403: sleep 60 s, continue.
CrawlRateLimited ==
    /\ unit.kind = "crawl" /\ unit.pc = "top" /\ ~unit.ctxDone
    /\ Cardinality({i \in DOMAIN unit.results : unit.results[i] = "rate"})
          < MaxRateLimits
    /\ unit' = [unit EXCEPT !.requested = Append(@, unit.page),
                            !.results = Append(@, "rate"),
                            !.backoffs = @ + 1,
                            !.page = PageAfter("rate", unit.page)]
    /\ UNCHANGED <<projects, Others>>

\* doRequest or json.Unmarshal returns another error: return repos, err.
CrawlError ==
    /\ unit.kind = "crawl" /\ unit.pc = "top" /\ ~unit.ctxDone
    /\ unit' = [unit EXCEPT !.requested = Append(@, unit.page),
                            !.results = Append(@, "err"),
                            !.pc = "returned", !.err = "API error"]
    /\ UNCHANGED <<projects, Others>>

\* The page is returned: merge its items, then stop or go on.
CrawlPage ==
    /\ unit.kind = "crawl" /\ unit.pc = "top" /\ ~unit.ctxDone
    /\ LET pg    == unit.page
           stop  == \/ ShouldStop(ItemsOn(unit.src, pg), pg, unit.src.total)
                    \/ AtCeiling(pg)
       IN  unit' = [unit EXCEPT
                      !.requested = Append(@, pg),
                      !.results = Append(@, "ok"),
                      !.repos = MergeItems(@, HitsOn(unit.src, pg)),
                      !.pc = IF stop THEN "returned" ELSE "top",
                      !.page = IF stop THEN pg ELSE PageAfter("ok", pg),
                      !.delays = IF stop THEN @ ELSE @ + 1]
    /\ UNCHANGED <<projects, Others>>

NextCrawl ==
    \/ CrawlCancel
    \/ CrawlCtxReturn
    \/ CrawlRateLimited
    \/ CrawlError
    \/ CrawlPage

SpecCrawl == InitCrawl /\ [][NextCrawl]_vars

\* ======================================== the notification fan-out on its own
\* One call of Service.NotifyNewProjects on a configs table chosen at the
\* start, for any list of records of a two-row projects table, any
\* outcome of the sends and at most one failing write to the notification
\* tables.  unit remembers the inputs of the call and what it returned.
NumConfigs == 2
ConfigIds == 1..NumConfigs
ConfigKinds ==
    {[type |-> "slack", valid |-> TRUE],
     [type |-> "email", valid |-> FALSE],
     [type |-> "pager", valid |-> TRUE]}
ConfigTables ==
    [ConfigIds -> {[type |-> k.type, valid |-> k.valid, enabled |-> e,
                    lastTriggered |-> NULL] :
                       k \in ConfigKinds, e \in BOOLEAN}]
NotifyStore ==
    UpdateProjectAdoption(
        UpdateProjectAdoption(
            MergeAll([r \in Repos |-> NoRow], StoreRepos, StoreRepos, 1, 1),
            1, 3, 1),
        2, 5, 1)
NotifyLists == {<<>>, <<"A">>, <<"A", "B">>, <<"B", "A">>}
\* The writes that can fail: one log insert or one last_triggered update.
StorageFaults ==
    {[lost |-> {}, untrig |-> {}]}
    \cup {[lost |-> {<<c, pid>>}, untrig |-> {}] :
             c \in ConfigIds, pid \in {NULL, 1, 2}}
    \cup {[lost |-> {}, untrig |-> {c}] : c \in ConfigIds}
AllSent == [x \in ConfigIds \X StoreRepos |-> TRUE]

InitNotify ==
    /\ Init!1 /\ Init!2 /\ Init!3 /\ Init!4 /\ Init!6
    /\ Init!8 /\ Init!9 /\ Init!10 /\ Init!11 /\ Init!12
    /\ projects = NotifyStore
    /\ configs \in ConfigTables
    /\ unit = [kind |-> "notify", done |-> FALSE, ps |-> <<>>,
               loadOK |-> TRUE, sendOK |-> AllSent, lost |-> {},
               untrig |-> {}, preLog |-> <<>>, preCfgs |-> configs,
               err |-> "", loaded |-> FALSE, sends |-> <<>>, now |-> 0]

FanOut ==
    /\ unit.kind = "notify" /\ ~unit.done
    /\ \E ps \in NotifyLists, loadOK \in BOOLEAN,
          sendOK \in [ConfigIds \X StoreRepos -> BOOLEAN],
          f \in StorageFaults :
         \* inputs the call does not look at are kept at their defaults
         /\ ps = <<>> \/ ~loadOK =>
               sendOK = AllSent /\ f = [lost |-> {}, untrig |-> {}]
         /\ LET res == NotifyNewProjects(notifLog, configs, projects, ps,
                                         loadOK, sendOK, f.lost, f.untrig, 1)
            IN  /\ notifLog' = res.log
                /\ configs' = res.cfgs
                /\ unit' = [unit EXCEPT !.done = TRUE, !.ps = ps,
                                        !.loadOK = loadOK,
                                        !.sendOK = sendOK,
                                        !.lost = f.lost,
                                        !.untrig = f.untrig,
                                        !.preLog = notifLog,
                                        !.preCfgs = configs,
                                        !.err = res.err,
                                        !.loaded = res.loaded,
                                        !.sends = res.sends,
                                        !.now = 1]
    /\ UNCHANGED <<refreshRunning, caller, jobs, run, projects, snapshots,
                   acquired, released, createFailed, hits>>

NextNotify ==
    \/ FanOut

SpecNotify == InitNotify /\ [][NextNotify]_vars

\* ======================================================= the test send on its own
\* Calls of Service.SendTestNotification, one after the other, on a
\* configs table chosen at the start; the ids asked for include one with
\* no row.  unit remembers the inputs of the last call and what it did.
MaxTests == 2
TestIds == 1..(NumConfigs + 1)
TestTables ==
    [ConfigIds -> {[type |-> k.type, valid |-> k.valid, enabled |-> e,
                    lastTriggered |-> t] :
                       k \in ConfigKinds, e \in BOOLEAN, t \in {NULL, 0}}]

\* GetNotificationConfig: sql.ErrNoRows gives (nil, nil).
HasConfig(cfgs, id) == id \in DOMAIN cfgs

\* SendTestNotification(configID): the new log table, the error returned
\* and the number of messages handed to the provider.  getOK is the
\* outcome of the config query, sendOK of provider.Send, lost the set of
\* failing log inserts.
SendTestNotification(log, cfgs, id, getOK, sendOK, lost) ==
    IF ~getOK
    THEN [log |-> log, sends |-> 0, err |-> "getting notification config"]
    ELSE IF ~HasConfig(cfgs, id)
    THEN [log |-> log, sends |-> 0, err |-> "notification config not found"]
    ELSE IF ~createProviderOK(cfgs[id])
    THEN [log |-> log, sends |-> 0, err |-> "creating provider"]
    ELSE IF ~sendOK
    THEN [log |-> logNotification(log, id, NULL, "failed", lost),
          sends |-> 1, err |-> "send"]
    ELSE [log |-> logNotification(log, id, NULL, "sent", lost),
          sends |-> 1, err |-> ""]

InitTest ==
    /\ Init!1 /\ Init!2 /\ Init!3 /\ Init!4 /\ Init!5 /\ Init!6
    /\ Init!8 /\ Init!9 /\ Init!10 /\ Init!11 /\ Init!12
    /\ configs \in TestTables
    /\ unit = [kind |-> "test", n |-> 0, id |-> 0, getOK |-> TRUE,
               sendOK |-> TRUE, lost |-> FALSE, preLog |-> <<>>,
               preCfgs |-> configs, sends |-> 0, err |-> ""]

TestSend ==
    /\ unit.kind = "test" /\ unit.n < MaxTests
    /\ \E id \in TestIds, getOK \in BOOLEAN, sendOK \in BOOLEAN,
          lost \in BOOLEAN :
         \* inputs the call does not look at are kept at their defaults
         /\ ~getOK \/ ~HasConfig(configs, id)
               \/ ~createProviderOK(configs[id]) => sendOK /\ ~lost
         /\ ~getOK => id = 1
         /\ LET res == SendTestNotification(notifLog, configs, id, getOK,
                           sendOK, IF lost THEN {<<id, NULL>>} ELSE {})
            IN  /\ notifLog' = res.log
                /\ unit' = [unit EXCEPT !.n = unit.n + 1, !.id = id,
                                        !.getOK = getOK, !.sendOK = sendOK,
                                        !.lost = lost, !.preLog = notifLog,
                                        !.preCfgs = configs,
                                        !.sends = res.sends,
                                        !.err = res.err]
    /\ UNCHANGED <<refreshRunning, caller, jobs, run, projects, snapshots,
                   configs, acquired, released, createFailed, hits>>

NextTest ==
    \/ TestSend

SpecTest == InitTest /\ [][NextTest]_vars

\* ================================================ the adoption windows on their own
\* One query for the records adopted inside a window: the trigger set of
\* a run (runRefresh 246-247) or handleNewProjects with a `since`
\* parameter.  Instants are whole hours, hour 0 being a Monday 00:00 UTC;
\* a string is the sequence of its characters.
HoursPerDay == 24
DaysPerWeek == 7
MaxDay == 15
\* The largest number of whole hours an int64 of nanoseconds holds, and
\* the whole hours in 2^64 nanoseconds (5124095.58 hours).
MaxDurationHours == 2562047
WrapHours == 5124095

ThisWeek == <<"t", "h", "i", "s", "w", "e", "e", "k">>
SinceStrings ==
    {<<>>, ThisWeek,
     <<"7", "d">>, <<"1", "w">>, <<"2", "4", "h">>, <<"0", "d">>,
     <<"+", "7", "d">>, <<"-", "1", "d">>,
     <<"1", "1", "0", "0", "0", "0", "d">>,
     <<"d">>, <<"7">>, <<"7", "x">>, <<"7", "D">>, <<"x", "d">>,
     <<"+", "d">>, <<"7", " ", "d">>, <<"1", "w", "k">>}

Digits == <<"0", "1", "2", "3", "4", "5", "6", "7", "8", "9">>
IsDigit(c) == \E i \in DOMAIN Digits : Digits[i] = c
DigitVal(c) == (CHOOSE i \in DOMAIN Digits : Digits[i] = c) - 1
Front(cs) == SubSeq(cs, 1, Len(cs) - 1)
Last(cs) == cs[Len(cs)]
RECURSIVE DecVal(_)
DecVal(cs) == IF cs = <<>> THEN 0
              ELSE 10 * DecVal(Front(cs)) + DigitVal(Last(cs))

\* strconv.Atoi: an optional sign, then one or more decimal digits.
Atoi(cs) ==
    LET signed == cs # <<>> /\ Head(cs) \in {"+", "-"}
        body   == IF signed THEN Tail(cs) ELSE cs
    IN  IF body = <<>> \/ \E i \in DOMAIN body : ~IsDigit(body[i])
        THEN [ok |-> FALSE, value |-> 0]
        ELSE [ok |-> TRUE,
              value |-> IF signed /\ Head(cs) = "-" THEN 0 - DecVal(body)
                        ELSE DecVal(body)]

\* parseDuration: the duration in hours before it is stored in the
\* int64 of a time.Duration.
parseDuration(s) ==
    IF Len(s) < 2 THEN [ok |-> FALSE, hours |-> 0]
    ELSE LET v == Atoi(Front(s))
         IN  IF ~v.ok THEN [ok |-> FALSE, hours |-> 0]
             ELSE IF Last(s) = "d"
             THEN [ok |-> TRUE, hours |-> v.value * HoursPerDay]
             ELSE IF Last(s) = "w"
             THEN [ok |-> TRUE,
                   hours |-> v.value * DaysPerWeek * HoursPerDay]
             ELSE IF Last(s) = "h"
             THEN [ok |-> TRUE, hours |-> v.value]
             ELSE [ok |-> FALSE, hours |-> 0]

\* time.Now().Add(-duration) as a bound for whole-hour instants t in
\* `t > since`: a product of more than MaxDurationHours wraps around
\* the int64, which moves the instant 2^64 ns later.
SinceOf(now, hours) ==
    IF hours > MaxDurationHours THEN now - hours + WrapHours
    ELSE now - hours

\* startOfWeek on an instant: back to Monday, then to 00:00 of that day.
WeekStart(now) == HoursPerDay * startOfWeek(now \div HoursPerDay)

\* handleNewProjects: the status of the response and the records listed.
handleNewProjects(store, since, now) ==
    LET sinceStr == IF since = <<>> THEN ThisWeek ELSE since
    IN  IF sinceStr = ThisWeek
        THEN [status |-> 200,
              list |-> GetNewProjectsSince(store, WeekStart(now))]
        ELSE LET d == parseDuration(sinceStr)
             IN  IF ~d.ok THEN [status |-> 400, list |-> <<>>]
                 ELSE [status |-> 200,
                       list |-> GetNewProjectsSince(store,
                                    SinceOf(now, d.hours))]

AdoptionTimes ==
    {NULL} \cup {HoursPerDay * d + h : d \in 0..MaxDay, h \in {0, 1}}
\* A table of three records adopted at a, b and c.
WindowStore(a, b, c) ==
    UpsertProject(
        UpsertProject(
            UpsertProject([r \in Repos |-> NoRow], Scanned("A", 1, a), 0),
            Scanned("B", 1, b), 0),
        Scanned("C", 1, c), 0)
\* Adoptions on three Mondays in a row, and one record at any instant
\* beside one without a date and one adopted in the first hour.
WindowStores ==
    {WindowStore(0, DaysPerWeek * HoursPerDay,
                 2 * DaysPerWeek * HoursPerDay)}
    \cup {WindowStore(t, NULL, 1) : t \in AdoptionTimes}
WindowNows ==
    {HoursPerDay * d + h : d \in DaysPerWeek..MaxDay, h \in {0, 13}}

InitWindow ==
    /\ Init!1 /\ Init!2 /\ Init!3 /\ Init!4 /\ Init!6 /\ Init!7
    /\ Init!8 /\ Init!9 /\ Init!10 /\ Init!11 /\ Init!12
    /\ projects \in WindowStores
    /\ \E now \in WindowNows :
         unit = [kind |-> "window", done |-> FALSE, op |-> "none",
                 now |-> now, since |-> <<>>, status |-> 0,
                 list |-> <<>>]

\* runRefresh 246-247: the records to notify about.
TriggerSet ==
    /\ unit.kind = "window" /\ ~unit.done
    /\ unit' = [unit EXCEPT
                  !.done = TRUE, !.op = "trigger", !.status = 200,
                  !.list = GetNewProjectsSince(projects,
                                               WeekStart(unit.now))]
    /\ UNCHANGED <<refreshRunning, caller, jobs, run, projects, snapshots,
                   configs, notifLog, acquired, released, createFailed,
                   hits>>

NewProjects ==
    /\ unit.kind = "window" /\ ~unit.done
    /\ \E since \in SinceStrings :
         LET res == handleNewProjects(projects, since, unit.now)
         IN  unit' = [unit EXCEPT !.done = TRUE, !.op = "lookup",
                                  !.since = since,
                                  !.status = res.status,
                                  !.list = res.list]
    /\ UNCHANGED <<refreshRunning, caller, jobs, run, projects, snapshots,
                   configs, notifLog, acquired, released, createFailed,
                   hits>>

NextWindow ==
    \/ TriggerSet
    \/ NewProjects

SpecWindow == InitWindow /\ [][NextWindow]_vars

\* ================================= one run at the grain of its blocking calls
\* The goroutine of runRefresh for a job that was started, followed from
\* one blocking call or sleep to the next: the search requests, the two
\* per-repository loops (detail loop of FetchAllProjects, adoption loop
\* of fetchAdoptionDates), the sends of the dispatcher, the release of
\* the flag.  The storage calls between them are followed in Spec and
\* are not steps here: the records without a date are the repositories
\* fetched, and the records to notify about are those that got a date.
\* One outside service may have stopped answering (hang).  The number of
\* back-offs of the search is counted up to MaxRateLimits; the search may
\* be rate limited any number of times.
MaxSearchPages == 2
Loops == {"detail", "lookup"}
HangKinds == {"none", "github", "webhook", "smtp"}
\* What a provider talks to: http.Post for slack, smtp.SendMail for email.
DependencyOf(provider) == IF provider = "slack" THEN "webhook" ELSE "smtp"

NoCalls == [calls |-> 0, backoffs |-> 0, delays |-> 0,
            first |-> "none", second |-> "none"]

\* doRequest under the run's context and the client's 30 s timeout: a
\* request always returns, with an error if the context is done or the
\* service does not answer.
RequestResults(ctxDone, hang) ==
    IF ctxDone \/ hang = "github" THEN {"err"} ELSE {"ok", "rate", "err"}

\* Variant: any failed call is retried after the back-off.
RetryAfter_AnyError(first) == first # "ok"

\* strings.Contains(err.Error(), "rate limited"): sleep 60 s and call
\* once more.
RetryAfter(first) == first = "rate"

\* Where a loop goes when it ends: by exhausting its list, or by finding
\* the context done at the top of an iteration.  A cancelled detail loop
\* makes FetchAllProjects return an error and the run return; a
\* cancelled adoption loop only returns from fetchAdoptionDates.
AfterLoop(l, cancelled) ==
    IF l = "detail" THEN (IF cancelled THEN ExitRun("crawl") ELSE "lookup")
    ELSE "send"

InitSteps ==
    /\ Init!2 /\ Init!3 /\ Init!4 /\ Init!5 /\ Init!6 /\ Init!7
    /\ Init!8 /\ Init!9 /\ Init!10 /\ Init!11 /\ Init!12
    /\ refreshRunning = TRUE
    /\ \E hang \in HangKinds, provider \in {"slack", "email"} :
         unit = [kind |-> "steps", pc |-> "search", at |-> "top",
                 ctxDone |-> FALSE, hang |-> hang, provider |-> provider,
                 page |-> 1, backoffs |-> 0, delays |-> 0,
                 todo |-> {}, cur |-> "none", got |-> {},
                 hist |-> [l \in Loops |-> [r \in StoreRepos |-> NoCalls]],
                 seq |-> [l \in Loops |-> <<>>],
                 out |-> {}, sends |-> 0]

StepsOthers == <<caller, jobs, run, projects, snapshots, configs, notifLog,
                 acquired, released, createFailed, hits>>

\* The deadline of the run's context passes.
StepsTimeout ==
    /\ unit.kind = "steps" /\ ~unit.ctxDone
    /\ unit.pc \notin {"release", "done"}
    /\ unit' = [unit EXCEPT !.ctxDone = TRUE]
    /\ UNCHANGED <<refreshRunning, StepsOthers>>

\* SearchDHIDockerfiles 110-117: the context test at the top of the loop,
\* then the request is made.
SearchTop ==
    /\ unit.kind = "steps" /\ unit.pc = "search" /\ unit.at = "top"
    /\ unit' = IF unit.ctxDone THEN [unit EXCEPT !.pc = ExitRun("crawl")]
               ELSE [unit EXCEPT !.at = "wait"]
    /\ UNCHANGED <<refreshRunning, StepsOthers>>

\* SearchDHIDockerfiles 118-162: the request returns.
SearchReturns ==
    /\ unit.kind = "steps" /\ unit.pc = "search" /\ unit.at = "wait"
    /\ \E res \in RequestResults(unit.ctxDone, unit.hang) :
         \/ /\ res = "rate"
            /\ unit' = [unit EXCEPT
                          !.at = "backoff",
                          !.backoffs = IF @ < MaxRateLimits THEN @ + 1
                                       ELSE @]
         \/ /\ res = "err"
            /\ unit' = [unit EXCEPT !.pc = ExitRun("crawl"), !.at = "top"]
         \/ /\ res = "ok" /\ unit.page < MaxSearchPages
            /\ unit' = [unit EXCEPT !.at = "delay", !.page = @ + 1,
                                    !.delays = @ + 1]
         \/ /\ res = "ok"
            /\ \E rs \in SUBSET StoreRepos :
                 unit' = [unit EXCEPT !.pc = "detail", !.at = "top",
                                      !.todo = rs]
    /\ UNCHANGED <<refreshRunning, StepsOthers>>

\* time.Sleep(60 s) at 125 or time.Sleep(searchRateDelay) at 161 ends.
SearchSleepEnds ==
    /\ unit.kind = "steps" /\ unit.pc = "search"
    /\ unit.at \in {"backoff", "delay"}
    /\ unit' = [unit EXCEPT !.at = "top"]
    /\ UNCHANGED <<refreshRunning, StepsOthers>>

\* The top of an iteration of a per-repository loop (FetchAllProjects
\* 200-212, fetchAdoptionDates 282-292): the loop ends, or the context
\* is found done, or the call for the next item is made.
LoopTop(l) ==
    /\ unit.kind = "steps" /\ unit.pc = l /\ unit.at = "top"
    /\ unit' =
         IF unit.todo = {}
         THEN [unit EXCEPT !.pc = AfterLoop(l, FALSE),
                           !.todo = IF l = "detail" THEN unit.got ELSE {},
                           !.out = IF l = "lookup" THEN unit.got ELSE {},
                           !.got = {}]
         ELSE IF unit.ctxDone
         THEN [unit EXCEPT !.pc = AfterLoop(l, TRUE), !.todo = {},
                           !.out = IF l = "lookup" THEN unit.got ELSE {},
                           !.got = {}]
         ELSE LET r == FirstRepo(unit.todo)
              IN  [unit EXCEPT !.at = "wait", !.cur = r,
                               !.todo = @ \ {r},
                               !.hist[l][r].calls = @ + 1,
                               !.seq[l] = Append(@, <<"call", r>>)]
    /\ UNCHANGED <<refreshRunning, StepsOthers>>

\* The first call for the current item returns (214-217, 293-295).
CallReturns(l) ==
    /\ unit.kind = "steps" /\ unit.pc = l /\ unit.at = "wait"
    /\ \E res \in RequestResults(unit.ctxDone, unit.hang) :
         LET r == unit.cur
         IN  unit' =
               IF RetryAfter(res)
               THEN [unit EXCEPT !.at = "backoff",
                                 !.hist[l][r].first = res,
                                 !.hist[l][r].backoffs = @ + 1,
                                 !.seq[l] = Append(@, <<"backoff", r>>)]
               ELSE IF DetailDecision(res, "none") = "append"
               THEN [unit EXCEPT !.at = "delay",
                                 !.hist[l][r].first = res,
                                 !.hist[l][r].delays = @ + 1,
                                 !.got = @ \cup {r},
                                 !.seq[l] = Append(@, <<"delay", r>>)]
               ELSE [unit EXCEPT !.at = "top",
                                 !.hist[l][r].first = res]
    /\ UNCHANGED <<refreshRunning, StepsOthers>>

\* time.Sleep(60 s) ends and the call is made once more (221-223,
\* 298-299).
BackoffEnds(l) ==
    /\ unit.kind = "steps" /\ unit.pc = l /\ unit.at = "backoff"
    /\ unit' = [unit EXCEPT !.at = "retry",
                            !.hist[l][unit.cur].calls = @ + 1,
                            !.seq[l] = Append(@, <<"call", unit.cur>>)]
    /\ UNCHANGED <<refreshRunning, StepsOthers>>

\* The second call returns (224-227, 300-303).
RetryReturns(l) ==
    /\ unit.kind = "steps" /\ unit.pc = l /\ unit.at = "retry"
    /\ \E res \in RequestResults(unit.ctxDone, unit.hang) :
         LET r == unit.cur
         IN  unit' =
               IF DetailDecision(unit.hist[l][r].first, res) = "append"
               THEN [unit EXCEPT !.at = "delay",
                                 !.hist[l][r].second = res,
                                 !.hist[l][r].delays = @ + 1,
                                 !.got = @ \cup {r},
                                 !.seq[l] = Append(@, <<"delay", r>>)]
               ELSE [unit EXCEPT !.at = "top",
                                 !.hist[l][r].second = res]
    /\ UNCHANGED <<refreshRunning, StepsOthers>>

\* The sleep at the bottom of an iteration ends (244, 316).
DelayEnds(l) ==
    /\ unit.kind = "steps" /\ unit.pc = l /\ unit.at = "delay"
    /\ unit' = [unit EXCEPT !.at = "top"]
    /\ UNCHANGED <<refreshRunning, StepsOthers>>

\* runRefresh 248-255: nothing to notify about, or the next provider.Send
\* is made (http.Post / smtp.SendMail, neither under the run's context).
SendTop ==
    /\ unit.kind = "steps" /\ unit.pc = "send" /\ unit.at = "top"
    /\ unit' = IF unit.out = {} THEN [unit EXCEPT !.pc = ExitRun("end")]
               ELSE [unit EXCEPT !.at = "wait",
                                 !.out = @ \ {FirstRepo(unit.out)},
                                 !.sends = @ + 1]
    /\ UNCHANGED <<refreshRunning, StepsOthers>>

\* provider.Send returns, which it does when the service answers or
\* refuses the connection.
SendReturns ==
    /\ unit.kind = "steps" /\ unit.pc = "send" /\ unit.at = "wait"
    /\ unit.hang # DependencyOf(unit.provider)
    /\ unit' = [unit EXCEPT !.at = "top"]
    /\ UNCHANGED <<refreshRunning, StepsOthers>>

\* runRefresh 198-202: the deferred release of the flag.
StepsRelease ==
    /\ unit.kind = "steps" /\ unit.pc = "release"
    /\ refreshRunning' = FALSE
    /\ unit' = [unit EXCEPT !.pc = "done", !.at = "top"]
    /\ UNCHANGED StepsOthers

\* The steps of the goroutine.
RunSteps ==
    \/ SearchTop
    \/ SearchReturns
    \/ SearchSleepEnds
    \/ \E l \in Loops : LoopTop(l)
    \/ \E l \in Loops : CallReturns(l)
    \/ \E l \in Loops : BackoffEnds(l)
    \/ \E l \in Loops : RetryReturns(l)
    \/ \E l \in Loops : DelayEnds(l)
    \/ SendTop
    \/ SendReturns
    \/ StepsRelease

NextSteps ==
    \/ StepsTimeout
    \/ RunSteps

SpecSteps == InitSteps /\ [][NextSteps]_vars

\* The goroutine is scheduled as long as it has a step to take.
SpecStepsFair == SpecSteps /\ WF_vars(RunSteps)

\* And the timer of context.WithTimeout fires.
SpecStepsTimed == SpecStepsFair /\ WF_vars(StepsTimeout)

\* ======================================== the configs table under its handlers
\* createNotification and updateNotification called one after the other
\* with any decoded payload, and the provider construction of the
\* fan-out on the table they leave.  A payload's config_json is one of:
\* empty, not JSON, a JSON object without the fields of any provider,
\* an object with webhook_url, an object with the email fields.
MaxConfigOps == 2
JsonKinds == {"", "notjson", "{}", "slack", "email"}
Payloads ==
    [name : {"", "n"}, type : {"", "slack", "email", "pager"},
     json : JsonKinds, enabled : BOOLEAN]

\* newSlackProvider / newEmailProvider: the payload parses and has
\* webhook_url, resp. `to`, and SENDGRID_API_KEY is set.
ProviderAccepts(type, json, apiKey) ==
    \/ type = "slack" /\ json = "slack"
    \/ type = "email" /\ json = "email" /\ apiKey

\* createNotification 573-607: required fields, known type, and the
\* fields of the payload for that type.
CreateValid(p) ==
    /\ p.name # "" /\ p.type # "" /\ p.json # ""
    /\ p.type \in {"slack", "email"}
    /\ p.type = "slack" => p.json = "slack"
    /\ p.type = "email" => p.json = "email"

\* updateNotification 646-656: required fields and known type only.
UpdateValid(p) ==
    /\ p.name # "" /\ p.type # "" /\ p.json # ""
    /\ p.type \in {"slack", "email"}

ConfigRow(p, apiKey, lastTriggered) ==
    [type |-> p.type, json |-> p.json, enabled |-> p.enabled,
     valid |-> ProviderAccepts(p.type, p.json, apiKey),
     lastTriggered |-> lastTriggered]

InitCfg ==
    /\ Init!1 /\ Init!2 /\ Init!3 /\ Init!4 /\ Init!5 /\ Init!6
    /\ Init!8 /\ Init!9 /\ Init!10 /\ Init!11 /\ Init!12
    /\ configs = <<>>
    /\ \E apiKey \in BOOLEAN :
         unit = [kind |-> "configs", ops |-> 0, apiKey |-> apiKey,
                 last |-> "none", status |-> 0, updated |-> {},
                 built |-> FALSE, broken |-> {}]

CfgOthers == <<refreshRunning, caller, jobs, run, projects, snapshots,
               notifLog, acquired, released, createFailed, hits>>

\* createNotification: 400 for a payload that fails the validation,
\* else the row is inserted (201).
CreateConfig ==
    /\ unit.kind = "configs" /\ unit.ops < MaxConfigOps
    /\ Len(configs) < NumConfigs
    /\ \E p \in Payloads :
         /\ configs' = IF CreateValid(p)
                       THEN Append(configs, ConfigRow(p, unit.apiKey, NULL))
                       ELSE configs
         /\ unit' = [unit EXCEPT !.ops = @ + 1, !.last = "create",
                                 !.status = IF CreateValid(p) THEN 201
                                            ELSE 400,
                                 !.built = FALSE, !.broken = {}]
    /\ UNCHANGED CfgOthers

\* updateNotification: 400 for a payload that fails the validation, else
\* UPDATE ... WHERE id = ? (200, whether or not the row exists).
UpdateConfig ==
    /\ unit.kind = "configs" /\ unit.ops < MaxConfigOps
    /\ \E id \in ConfigIds, p \in Payloads :
         LET hit == UpdateValid(p) /\ id \in DOMAIN configs
         IN  /\ configs' =
                   IF hit
                   THEN [configs EXCEPT
                           ![id] = ConfigRow(p, unit.apiKey,
                                             configs[id].lastTriggered)]
                   ELSE configs
             /\ unit' = [unit EXCEPT
                           !.ops = @ + 1, !.last = "update",
                           !.status = IF UpdateValid(p) THEN 200 ELSE 400,
                           !.updated = IF hit THEN @ \cup {id} ELSE @,
                           !.built = FALSE, !.broken = {}]
    /\ UNCHANGED CfgOthers

\* NotifyNewProjects 43-54: createProvider for every enabled config;
\* broken is the set of configs for which it returns an error.
BuildProviders ==
    /\ unit.kind = "configs" /\ ~unit.built
    /\ unit' = [unit EXCEPT
                  !.built = TRUE,
                  !.broken = {c \in DOMAIN configs :
                                 /\ configs[c].enabled
                                 /\ ~createProviderOK(configs[c])}]
    /\ UNCHANGED <<configs, CfgOthers>>

NextCfg ==
    \/ CreateConfig
    \/ UpdateConfig
    \/ BuildProviders

SpecCfg == InitCfg /\ [][NextCfg]_vars

\* ============================================== the chat provider's Send
\* slackProvider.Send for a constructed provider, called by the fan-out
\* for one config and one record after the other; the webhook answers
\* each call with an HTTP status, or http.Post returns an error
\* (NoResponse).
MaxSends == 3
StatusOK == 200
NoResponse == 0
WebhookStatuses == {200, 201, 204, 299, 301, 400, 429, 500}
WebhookResults == {NoResponse} \cup WebhookStatuses

\* Send 258-268: the error of http.Post, or an error for a status other
\* than http.StatusOK, else nil.
slackSend(res) ==
    IF res = NoResponse THEN "sending slack webhook"
    ELSE IF res # StatusOK THEN "slack webhook returned status"
    ELSE ""

InitSend ==
    /\ Init!1 /\ Init!2 /\ Init!3 /\ Init!4 /\ Init!5 /\ Init!6 /\ Init!7
    /\ Init!8 /\ Init!9 /\ Init!10 /\ Init!11 /\ Init!12
    /\ unit = [kind |-> "send", results |-> <<>>, errs |-> <<>>]

\* NotifyNewProjects 57-66 for one record: Send, then the log row.
SlackSend ==
    /\ unit.kind = "send" /\ Len(unit.results) < MaxSends
    /\ \E res \in WebhookResults :
         LET err == slackSend(res)
             r   == Len(unit.results) + 1
         IN  /\ unit' = [unit EXCEPT !.results = Append(@, res),
                                     !.errs = Append(@, err)]
             /\ notifLog' = logNotification(notifLog, 1, r,
                                IF err = "" THEN "sent" ELSE "failed", {})
    /\ UNCHANGED <<refreshRunning, caller, jobs, run, projects, snapshots,
                   configs, acquired, released, createFailed, hits>>

NextSend == SlackSend

SpecSend == InitSend /\ [][NextSend]_vars

\* ============================================ responses of the search API
\* What SearchDHIDockerfiles does with the answer to each page request.
\* An answer is an HTTP status with a body that is a search result in
\* JSON, a text containing "rate limited", or another text; NoResponse
\* stands for an error of httpClient.Do.
MaxRequests == 3
RateLimitStatus == 403
ApiStatuses == {200, 403, 404, 422, 429, 500}
BodyKinds == {"json", "ratetext", "text"}
ApiResponses == [status : ApiStatuses \cup {NoResponse}, body : BodyKinds]

\* doRequest 79-99: the error returned, as [kind, text mentions "rate
\* limited"]; kind "" is a nil error.
doRequest(resp) ==
    IF resp.status = NoResponse
    THEN [kind |-> "transport", rateText |-> FALSE]
    ELSE IF resp.status = RateLimitStatus
    THEN [kind |-> "rate limited", rateText |-> TRUE]
    ELSE IF resp.status # StatusOK
    THEN [kind |-> "API error", rateText |-> resp.body = "ratetext"]
    ELSE [kind |-> "", rateText |-> FALSE]

\* SearchDHIDockerfiles 121-134: back off and retry the page when the
\* error text contains "rate limited", return any other error and the
\* error of json.Unmarshal, else go on with the decoded page.
searchHandling(resp) ==
    LET err == doRequest(resp)
    IN  IF err.kind # ""
        THEN IF err.rateText THEN "retry" ELSE "fail"
        ELSE IF resp.body # "json" THEN "fail" ELSE "page"

InitResp ==
    /\ Init!1 /\ Init!2 /\ Init!3 /\ Init!4 /\ Init!5 /\ Init!6 /\ Init!7
    /\ Init!8 /\ Init!9 /\ Init!10 /\ Init!11 /\ Init!12
    /\ unit = [kind |-> "resp", pc |-> "loop", page |-> 1, hist |-> <<>>,
               reason |-> ""]

RespOthers == <<refreshRunning, caller, jobs, run, projects, snapshots,
                configs, notifLog, acquired, released, createFailed, hits>>

\* 112-116: the context is found done at the top of the loop.
RespCancel ==
    /\ unit.kind = "resp" /\ unit.pc = "loop"
    /\ unit' = [unit EXCEPT !.pc = "failed", !.reason = "cancelled"]
    /\ UNCHANGED RespOthers

\* 121-134: one request and what is done with its answer.
RespRequest ==
    /\ unit.kind = "resp" /\ unit.pc = "loop"
    /\ Len(unit.hist) < MaxRequests
    /\ \E resp \in ApiResponses :
         LET h == searchHandling(resp)
         IN  unit' = [unit EXCEPT
                        !.hist = Append(@, [resp |-> resp, page |-> unit.page,
                                            handling |-> h]),
                        !.page = IF h = "page" THEN @ + 1 ELSE @,
                        !.pc = IF h = "fail" THEN "failed" ELSE "loop",
                        !.reason = IF h = "fail" THEN doRequest(resp).kind
                                   ELSE @]
    /\ UNCHANGED RespOthers

NextResp ==
    \/ RespCancel
    \/ RespRequest

SpecResp == InitResp /\ [][NextResp]_vars

\* ==================================================== the status query
\* One execution of handleRefreshStatus interleaved with the start
\* attempts and the runs of Spec.  The handler reads the flag under
\* refreshMu, unlocks, and then reads the newest job row; unit keeps what
\* it read and the number of acquisitions made so far at each of the
\* two reads.  A behaviour is followed up to the handler's response.
\* Variant: the handler reports that no refresh is running whatever the
\* flag says.
ReportedRunning_Never(running) == FALSE

\* response["is_running"] = isRunning, the value read under the lock.
ReportedRunning(running) == running

InitStatus ==
    /\ Init!1 /\ Init!2 /\ Init!3 /\ Init!4 /\ Init!5 /\ Init!6 /\ Init!7
    /\ Init!8 /\ Init!9 /\ Init!10 /\ Init!11 /\ Init!12
    /\ unit = [kind |-> "status", pc |-> "idle", isRunning |-> FALSE,
               acqAtFlag |-> 0, acqAtJob |-> 0, job |-> 0,
               status |-> "none"]

StatusOthers == <<refreshRunning, caller, jobs, run, projects, snapshots,
                  configs, notifLog, acquired, released, createFailed, hits>>

\* handleRefreshStatus 465-467: lock, read the flag, unlock.
StatusReadFlag ==
    /\ unit.kind = "status" /\ unit.pc = "idle"
    /\ unit' = [unit EXCEPT !.pc = "flag",
                            !.isRunning = ReportedRunning(refreshRunning),
                            !.acqAtFlag = acquired]
    /\ UNCHANGED StatusOthers

\* handleRefreshStatus 469-492: GetLatestRefreshJob (ORDER BY id DESC
\* LIMIT 1), then the response; 500 if the query fails.
StatusReadJob ==
    /\ unit.kind = "status" /\ unit.pc = "flag"
    /\ \E ok \in BOOLEAN :
         unit' = IF ~ok THEN [unit EXCEPT !.pc = "error"]
                 ELSE [unit EXCEPT
                         !.pc = "reported",
                         !.acqAtJob = acquired,
                         !.job = Len(jobs),
                         !.status = IF Len(jobs) = 0 THEN "none"
                                    ELSE jobs[Len(jobs)].status]
    /\ UNCHANGED StatusOthers

NextStatus ==
    \/ unit.pc \in {"idle", "flag"} /\ Next
    \/ StatusReadFlag
    \/ StatusReadJob

SpecStatus == InitStatus /\ [][NextStatus]_vars

\* =================================================================== claims
ActiveRuns == {j \in JobIds : Live(j)}
Creating == {c \in Callers : caller[c] = "create"}
Acquirers == {c \in Callers : caller[c] \in {"create", "accepted", "error"}}
RunningJobs == {j \in DOMAIN jobs : jobs[j].status = "running"}
SearchErrs == {"searching dockerfiles: API error",
               "searching dockerfiles: context"}
\* The records written by the upsert loop of run j.
UpsertedBy(j) == {r \in Present(projects) : projects[r].lastSeen = j}

\* C1 (as claimed): at most one refresh run is active at any time, and
\* whenever an attempt was answered "already running", the attempt that
\* held the flag is accepted (or is still on its way to CreateRefreshJob).
C1_ExactlyOneAccepted ==
    /\ Cardinality(ActiveRuns) <= 1
    /\ \A c \in Callers :
         caller[c] = "already" =>
            \E d \in Callers \ {c} : caller[d] \in {"create", "accepted"}

\* The mutual-exclusion part of C1: at most one start attempt or run
\* holds the flag, and an attempt is answered "already running" only
\* while another attempt had acquired the flag before it.
SingleFlight ==
    /\ Cardinality(ActiveRuns) + Cardinality(Creating) <= 1
    /\ \A c \in Callers :
         caller[c] = "already" => \E d \in Acquirers : d # c

\* C2: an attempt that found the flag set creates no job row and launches
\* no run: the job rows are exactly those of the attempts that acquired
\* the flag and whose CreateRefreshJob succeeded, one run per row.
C2_JobsOnlyFromAcquirers ==
    /\ Cardinality(Acquirers) = acquired
    /\ Len(jobs) = acquired - createFailed - Cardinality(Creating)
    /\ Len(jobs) = Cardinality({c \in Callers : caller[c] = "accepted"})
    /\ {j \in JobIds : run[j].pc # "none"} = DOMAIN jobs

C2_Witness ==
    /\ \E c \in Callers : caller[c] = "already"
    /\ acquired = 1
    /\ Len(jobs) = 1
    /\ run[1].pc = "done"

\* C3: every acquisition of the flag is followed by exactly one release,
\* made by its holder: the flag is set exactly while a start attempt is
\* between its acquisition and CreateRefreshJob or a run has not finished,
\* on every exit path of the run.
C3_ReleasedOncePerAcquisition ==
    /\ released = acquired - (IF refreshRunning THEN 1 ELSE 0)
    /\ refreshRunning <=> (ActiveRuns # {} \/ Creating # {})

C3_Witness ==
    /\ released = 2
    /\ ~refreshRunning
    /\ \E j \in JobIds : run[j].pc = "done" /\ jobs[j].status = "pending"

\* C4 (as claimed): every start attempt ends accepted or "already
\* running"; TriggerRefresh returns false only when a refresh was running.
C4_AcceptedOrAlreadyRunning ==
    \A c \in Callers : caller[c] \in {"idle", "create", "accepted", "already"}

\* C5: a job row is created pending, goes pending -> running ->
\* completed | failed, and a completed or failed row never changes again.
C5_JobLifecycle ==
    [][/\ Len(jobs') >= Len(jobs)
       /\ \A j \in DOMAIN jobs' :
            IF j \in DOMAIN jobs
            THEN \/ jobs'[j] = jobs[j]
                 \/ jobs[j].status = "pending" /\ jobs'[j].status = "running"
                 \/ /\ jobs[j].status = "running"
                    /\ jobs'[j].status \in {"completed", "failed"}
            ELSE jobs'[j] = NewJob]_vars

C5_Witness ==
    /\ Len(jobs) = 2
    /\ jobs[1].status = "completed"
    /\ jobs[2].status = "running"
    /\ run[2].pc = "upsert"

\* C6 (as claimed): at most one job row is in state running.
C6_AtMostOneRunning == Cardinality(RunningJobs) <= 1

\* C6 (amended): at most one running row belongs to a run that has not
\* finished; every other running row was left behind by a run whose
\* transition to completed or failed returned a storage error.
C6_RunningIsActiveOrStuck ==
    /\ Cardinality({j \in RunningJobs : Live(j)}) <= 1
    /\ \A j \in RunningJobs : Live(j) \/ run[j].stuck

C6_Witness ==
    /\ Cardinality(RunningJobs) = 2
    /\ run[1].pc = "done" /\ run[1].stuck
    /\ run[2].pc = "search"

\* C7 (as claimed): once FetchAllProjects has returned an error the job
\* is moved to failed with the error detail, no later phase of the run
\* executes and the records, the notification log and the snapshots are
\* as they were before the run.
C7_CrawlFailureFailsJob ==
    \A j \in JobIds :
        run[j].err # "" =>
            /\ run[j].pc \in {"fail", "release"}
            /\ run[j].phases = {}
            /\ Durable = run[j].pre
            /\ run[j].pc = "release" =>
                 jobs[j].status = "failed" /\ jobs[j].err = run[j].err

\* C7 (amended): the same, except that the job row is failed only if the
\* FailRefreshJob update itself succeeded; its error is ignored and the
\* row then stays running.
C7_CrawlFailureStopsRun ==
    \A j \in JobIds :
        run[j].err # "" =>
            /\ run[j].pc \in {"fail", "release"}
            /\ run[j].phases = {}
            /\ Durable = run[j].pre
            /\ run[j].pc = "release" =>
                 \/ jobs[j].status = "failed" /\ jobs[j].err = run[j].err
                 \/ run[j].stuck /\ jobs[j].status = "running"
                       /\ jobs[j].err = ""

C7_Witness ==
    \E j \in JobIds :
        /\ run[j].pc = "release"
        /\ run[j].err \in SearchErrs
        /\ jobs[j].status = "failed"
        /\ Present(projects) # {}

C9_CountIsUpserted ==
    \A j \in JobIds :
        run[j].pc = "bfquery" /\ jobs[j].status = "completed"
            => jobs[j].found = Cardinality(run[j].upOK)

\* C10 (as claimed): when the context ends the detail loop early, the
\* repositories whose details were already fetched are still upserted.
C10_PartialResultsKept ==
    \A j \in JobIds :
        run[j].pc = "release" /\ run[j].err = "context"
            => \A r \in run[j].fetched : r \in UpsertedBy(j)

\* C11: once a record's adoption timestamp is non-null no step of any
\* run changes it (a re-scan keeps it, the backfill writes only to
\* records whose timestamp is null), and the record itself stays.
C11_AdoptionWriteOnce ==
    [][\A r \in Repos :
          projects[r].id # 0 /\ projects[r].adopted # NULL
              => /\ projects'[r].id = projects[r].id
                 /\ projects'[r].adopted = projects[r].adopted
                 /\ projects'[r].commit = projects[r].commit]_vars

C11_Witness ==
    \E r \in Repos, j \in JobIds :
        /\ projects[r].id # 0
        /\ projects[r].adopted = FirstCommitDay(r)
        /\ projects[r].firstSeen < j
        /\ projects[r].lastSeen = j
        /\ run[j].pc = "backfill"

\* A whole pass has just been repeated with the data of the pass before
\* it, all upserts of the earlier pass having succeeded.
SamePassTwice ==
    /\ unit.kind = "store" /\ unit.op = "merge"
    /\ unit.last.rs # {}
    /\ unit.pass.rs = unit.last.rs /\ unit.pass.v = unit.last.v
    /\ unit.last.ok = unit.last.rs

C13_UpsertFrame ==
    unit.kind = "store" /\ unit.op = "upsert"
                        /\ unit.pre[unit.p.repo].id # 0 =>
        LET r   == unit.p.repo
            old == unit.pre[r]
            new == projects[r]
        IN  /\ new.stars = unit.p.stars
            /\ new.description = unit.p.description
            /\ new.language = unit.p.language
            /\ new.path = unit.p.path
            /\ new.sourceType = unit.p.sourceType
            /\ new.lastSeen = unit.clock /\ new.lastSeen > old.lastSeen
            /\ new.id = old.id
            /\ new.firstSeen = old.firstSeen
            /\ old.adopted # NULL => new.adopted = old.adopted
            /\ new.commit = old.commit
            /\ \A q \in Repos \ {r} : projects[q] = unit.pre[q]

C13_Witness ==
    /\ unit.kind = "store" /\ unit.op = "upsert"
    /\ unit.pre[unit.p.repo].id # 0
    /\ unit.pre[unit.p.repo].adopted = 3 /\ unit.p.adopted = 5
    /\ unit.pre[unit.p.repo].stars # unit.p.stars
    /\ unit.pre[unit.p.repo].commit
    /\ \E q \in Repos \ {unit.p.repo} : projects[q].id # 0

\* The first page of a source that is not full or whose cumulative offset
\* reaches the reported total.
FirstStop(src) ==
    CHOOSE pg \in 1..(MaxSourcePages + 1) :
        /\ ItemsOn(src, pg) < PerPage \/ pg * PerPage >= src.total
        /\ \A q \in 1..(pg - 1) :
             ~(ItemsOn(src, q) < PerPage \/ q * PerPage >= src.total)

\* The map after the pages 1..k of a source have been merged in order.
RECURSIVE MapUpTo(_, _)
MapUpTo(src, k) ==
    IF k = 0 THEN NoRepos ELSE MergeItems(MapUpTo(src, k - 1), HitsOn(src, k))

CountOf(res) ==
    Cardinality({i \in DOMAIN unit.results : unit.results[i] = res})
LastRequested == unit.requested[Len(unit.requested)]
ReturnedOK == unit.kind = "crawl" /\ unit.pc = "returned" /\ unit.err = ""

\* C14: the pages are requested in order starting at 1, no page after the
\* first page that is not full or reaches the reported total is ever
\* requested, and a crawl that returns normally below the ceiling has
\* requested exactly the pages up to that one.
C14_PaginationStops ==
    unit.kind = "crawl" =>
        /\ Len(unit.requested) > 0 => unit.requested[1] = 1
        /\ \A i \in 1..(Len(unit.requested) - 1) :
             unit.requested[i + 1] \in
                 {unit.requested[i], unit.requested[i] + 1}
        /\ \A i \in DOMAIN unit.requested :
             unit.requested[i] <= FirstStop(unit.src)
        /\ ReturnedOK /\ FirstStop(unit.src) <= MaxPage =>
             /\ LastRequested = FirstStop(unit.src)
             /\ {unit.requested[i] : i \in DOMAIN unit.requested}
                   = 1..FirstStop(unit.src)

C14_Witness ==
    /\ ReturnedOK
    /\ unit.src.n = 3 /\ unit.src.lastCount = PartialCount
    /\ unit.src.total = 5000
    /\ unit.requested = <<1, 2, 3>>

\* C15: every rate-limit signal is followed by one back-off sleep and, if
\* a request follows, by a request for the same page (only a cancelled
\* context ends the crawl after a rate-limit signal); the map always
\* holds the merge of the pages returned so far, and a crawl that returns
\* normally returns the map of the source, however many rate-limit signals
\* it met.
C15_RateLimitRetriesSamePage ==
    unit.kind = "crawl" =>
        /\ unit.backoffs = CountOf("rate")
        /\ \A i \in 1..(Len(unit.requested) - 1) :
             unit.results[i] = "rate"
                 => unit.requested[i + 1] = unit.requested[i]
        /\ Len(unit.requested) > 0 /\ unit.results[Len(unit.results)] = "rate"
             => /\ unit.page = LastRequested
                /\ unit.pc = "top" \/ unit.err = "context"
        /\ unit.repos = MapUpTo(unit.src, CountOf("ok"))
        /\ ReturnedOK =>
             /\ CountOf("ok") = IF FirstStop(unit.src) <= MaxPage
                               THEN FirstStop(unit.src) ELSE MaxPage
             /\ Len(unit.requested) = CountOf("ok") + unit.backoffs

C15_Witness ==
    /\ ReturnedOK
    /\ unit.src.n = 3 /\ unit.src.total = 5000
    /\ unit.requested = <<1, 2, 2, 3>>
    /\ unit.results = <<"ok", "rate", "ok", "ok">>
    /\ unit.backoffs = 1
    /\ unit.repos = MapUpTo(unit.src, 3)

\* C16: no page above the ceiling is ever requested or about to be
\* requested, and when the page at the ceiling has been returned the
\* crawl returns without error with the map of the pages merged so far.
C16_CeilingIsNormalStop ==
    unit.kind = "crawl" =>
        /\ unit.page <= MaxPage
        /\ \A i \in DOMAIN unit.requested : unit.requested[i] <= MaxPage
        /\ Len(unit.requested) > 0 /\ LastRequested = MaxPage
                                   /\ unit.results[Len(unit.results)] = "ok"
             => /\ ReturnedOK
                /\ unit.repos = MapUpTo(unit.src, MaxPage)

C16_Witness ==
    /\ ReturnedOK
    /\ unit.src.n = MaxSourcePages /\ unit.src.total = 5000
    /\ LastRequested = MaxPage
    /\ FirstStop(unit.src) > MaxPage

\* The pass over a non-empty list that loaded its configs.
Ran == unit.kind = "notify" /\ unit.done /\ unit.ps # <<>> /\ unit.loadOK
Recs == {unit.ps[i] : i \in DOMAIN unit.ps}
Enabled(c) == unit.preCfgs[c].enabled
Constructs(c) ==
    unit.preCfgs[c].type \in {"slack", "email"} /\ unit.preCfgs[c].valid
\* The rows the pass appended for config c and project id pid.
NewRows(c, pid) ==
    {i \in DOMAIN notifLog :
        /\ i > Len(unit.preLog)
        /\ notifLog[i].config = c /\ notifLog[i].project = pid}
SendsOf(c, r) == {i \in DOMAIN unit.sends : unit.sends[i] = <<c, r>>}
LogLost(c, pid) == <<c, pid>> \in unit.lost

C20_EmptyListNoOp ==
    unit.kind = "notify" /\ unit.done /\ unit.ps = <<>> =>
        /\ ~unit.loaded
        /\ unit.sends = <<>>
        /\ unit.err = ""
        /\ notifLog = unit.preLog
        /\ configs = unit.preCfgs

C20_Witness ==
    /\ unit.kind = "notify" /\ unit.done /\ unit.ps = <<>>
    /\ ~unit.loadOK
    /\ \A c \in ConfigIds : Enabled(c) /\ Constructs(c)

\* C21: a test send for a config that has a row hands one message to the
\* provider and appends exactly one log row with a null record id, `sent`
\* or `failed` as the send went, and leaves the configs table (its
\* last_triggered_at included) as it was; for an id with no row it
\* returns an error and appends nothing.  The config query and the log
\* insert are taken to succeed.
Tested == unit.kind = "test" /\ unit.n > 0 /\ unit.getOK /\ ~unit.lost
C21_TestSendOneRow ==
    Tested =>
        /\ configs = unit.preCfgs
        /\ IF HasConfig(unit.preCfgs, unit.id)
           THEN /\ unit.sends = 1
                /\ notifLog =
                      Append(unit.preLog,
                             LogRow(unit.id, NULL,
                                    IF unit.sendOK THEN "sent"
                                    ELSE "failed"))
           ELSE /\ unit.err # ""
                /\ unit.sends = 0
                /\ notifLog = unit.preLog

\* The records listed by the query, and the records adopted in [lo, hi].
Queried == unit.kind = "window" /\ unit.done /\ unit.status = 200
Listed == {unit.list[i] : i \in DOMAIN unit.list}
AdoptedIn(lo, hi) ==
    {r \in Present(projects) :
        /\ projects[r].adopted # NULL
        /\ lo <= projects[r].adopted /\ projects[r].adopted <= hi}
NoneAdoptedLater ==
    \A r \in Present(projects) : projects[r].adopted <= unit.now
\* Monday 00:00 of the week of an instant: hour 0 is a Monday 00:00.
MondayOf(now) == now - (now % (DaysPerWeek * HoursPerDay))

\* C22: the records of "this week", in the trigger set of a run and in
\* the lookup with since=thisweek, are exactly the records adopted at
\* an instant t with weekStart <= t <= now, weekStart being the Monday
\* 00:00 UTC of the week of now, on every weekday of now.  (Checked on
\* tables without a record adopted after now.)
C22_ThisWeekWindow ==
    /\ Queried /\ NoneAdoptedLater
    /\ unit.op = "trigger" \/ unit.since = ThisWeek
    => Listed = AdoptedIn(MondayOf(unit.now), unit.now)

\* An optionally signed decimal integer followed by one of h, d, w, and
\* the hours it stands for.
IsInteger(cs) ==
    LET body == IF cs # <<>> /\ Head(cs) \in {"+", "-"} THEN Tail(cs)
                ELSE cs
    IN  body # <<>> /\ \A i \in DOMAIN body : IsDigit(body[i])
IsWindow(s) ==
    /\ Len(s) >= 2 /\ Last(s) \in {"h", "d", "w"} /\ IsInteger(Front(s))
HoursIn(u) == IF u = "h" THEN 1
              ELSE IF u = "d" THEN HoursPerDay
              ELSE DaysPerWeek * HoursPerDay
WindowHours(s) ==
    LET cs == Front(s)
        n  == DecVal(IF Head(cs) \in {"+", "-"} THEN Tail(cs) ELSE cs)
    IN  (IF Head(cs) = "-" THEN 0 - n ELSE n) * HoursIn(Last(s))

\* C23: a lookup with a `since` string is answered exactly for
\* "thisweek" and for an integer N followed by h, d or w, and refused
\* with an error for every other string; for N hours/days/weeks the
\* records listed are exactly the records adopted in the last N
\* hours/days/weeks before now.  (Checked for N >= 0 on tables without
\* a record adopted after now, the start of the window itself left
\* open.)
C23_WindowLookup ==
    unit.kind = "window" /\ unit.done /\ unit.op = "lookup"
    /\ unit.since # <<>>
    => /\ unit.status = 200 <=> unit.since = ThisWeek \/ IsWindow(unit.since)
       /\ /\ IsWindow(unit.since) /\ WindowHours(unit.since) >= 0
          /\ NoneAdoptedLater
          => Listed = AdoptedIn(unit.now - WindowHours(unit.since) + 1,
                                unit.now)

\* The snapshots run j has appended since it started.
SnapshotsOf(j) == Len(snapshots) - Len(run[j].pre[3])

\* C24 as stated: at the end of a run, the run has appended exactly one
\* snapshot if its job is `completed` and none otherwise, and the rows
\* that were there when it started are unchanged.  (Checked on runs
\* whose RecordSnapshot, if called, succeeded.)
C24_SnapshotIffCompleted ==
    \A j \in JobIds :
        /\ run[j].pc = "release"
        /\ "snapshot" \in run[j].phases => SnapshotsOf(j) = 1
        =>
            /\ SnapshotsOf(j) =
                  IF jobs[j].status = "completed" THEN 1 ELSE 0
            /\ SubSeq(snapshots, 1, Len(run[j].pre[3])) = run[j].pre[3]

\* C24: the snapshots table changes only by the append of one row of
\* current aggregates, made by the snapshot step of a run, which a run
\* takes at most once and which is its last step before the release;
\* the job of that run is `completed`, or still `running` because
\* CompleteRefreshJob failed; a run whose job is failed or pending
\* appends nothing, and a run whose job is completed always takes the
\* snapshot step (which appends unless RecordSnapshot fails).
C24_SnapshotPerPassedCrawl ==
    [][/\ snapshots' # snapshots =>
            /\ snapshots' = Append(snapshots, GetStats(projects))
            /\ \E j \in JobIds :
                 /\ run[j].pc = "snapshot" /\ run'[j].pc = "release"
                 /\ \/ jobs[j].status = "completed"
                    \/ jobs[j].status = "running" /\ run[j].stuck
       /\ \A j \in JobIds :
            /\ run[j].pc \in {"release", "done"} =>
                  run'[j].pc \in {"release", "done"}
            /\ /\ run[j].pc # "release" /\ run'[j].pc = "release"
               /\ jobs[j].status = "completed"
               => run[j].pc = "snapshot"]_vars

C24_Witness ==
    \E j \in JobIds :
        /\ run[j].pc = "release" /\ jobs[j].status = "completed"
        /\ SnapshotsOf(j) = 1 /\ run[j].ctxDone
        /\ \E k \in DOMAIN jobs : k # j /\ jobs[k].status = "failed"

\* C25: once the timeout of a run has expired the run reaches the release
\* of the flag, whichever outside service has stopped answering.
C25_TimeoutReleases ==
    (unit.kind = "steps" /\ unit.ctxDone) ~> ~refreshRunning

\* The place of a position of runRefresh in the order of its steps.
PhaseRank(pc) ==
    CASE pc = "none"     -> 0
      [] pc = "start"    -> 1
      [] pc = "search"   -> 2
      [] pc = "detail"   -> 3
      [] pc = "fail"     -> 4
      [] pc = "upsert"   -> 4
      [] pc = "bfquery"  -> 5
      [] pc = "backfill" -> 6
      [] pc = "notify"   -> 7
      [] pc = "snapshot" -> 8
      [] pc = "release"  -> 9
      [] pc = "done"     -> 10
StatusOf(js, j) == IF j \in DOMAIN js THEN js[j].status ELSE "none"
AdoptedOf(store) == [r \in Repos |-> IF store[r].id = 0 THEN NULL
                                     ELSE store[r].adopted]

\* C26: a run never goes back in the order job to running, search,
\* detail fetch, upserts, job to completed, adoption backfill,
\* notification, snapshot, release, and each effect is made at its own
\* step; at most one run is under way, no job is created and no start
\* attempt is accepted while a run has not released the flag, also when
\* the job of that run is already completed.
C26_PhaseOrder ==
    [][/\ \A j \in JobIds :
            /\ PhaseRank(run'[j].pc) >= PhaseRank(run[j].pc)
            /\ StatusOf(jobs', j) # StatusOf(jobs, j) =>
                  \/ StatusOf(jobs', j) = "pending" /\ run[j].pc = "none"
                  \/ StatusOf(jobs', j) = "running" /\ run[j].pc = "start"
                  \/ StatusOf(jobs', j) = "failed" /\ run[j].pc = "fail"
                  \/ /\ StatusOf(jobs', j) = "completed"
                     /\ run[j].pc = "upsert" /\ run[j].todo = {}
                     /\ run'[j].pc = "bfquery"
       /\ hits' # hits => \E j \in JobIds : run[j].pc = "search"
       /\ projects' # projects =>
             \E j \in JobIds :
                 IF AdoptedOf(projects') # AdoptedOf(projects)
                 THEN run[j].pc = "backfill"
                 ELSE run[j].pc = "upsert"
       /\ notifLog' # notifLog \/ configs' # configs =>
             \E j \in JobIds : run[j].pc = "notify"
       /\ snapshots' # snapshots =>
             \E j \in JobIds : run[j].pc = "snapshot"
       /\ Cardinality({j \in JobIds : Live(j)}) <= 1
       /\ (\E j \in JobIds : Live(j)) =>
             /\ Len(jobs') = Len(jobs)
             /\ refreshRunning
             /\ \A c \in Callers :
                   caller'[c] # caller[c] => caller'[c] = "already"]_vars

C26_Witness ==
    /\ Len(jobs) = 1 /\ jobs[1].status = "completed"
    /\ run[1].pc \in {"backfill", "notify", "snapshot"}
    /\ \E c \in Callers : caller[c] = "already"
    /\ \E c \in Callers : caller[c] = "accepted"
    /\ refreshRunning

\* C27: once the timeout has expired in the adoption backfill the later
\* phases of that run are skipped: from the backfill the run goes to the
\* release of the flag, not on to the notification and the snapshot.
C27_TimeoutSkipsLaterPhases ==
    [][\A j \in JobIds :
          run[j].pc = "backfill" /\ run[j].ctxDone =>
              run'[j].pc \in {"backfill", "release"}]_vars

\* A call of loop l for item r returned a failure in this step: a first
\* call with another error than the rate limit, or a second call with
\* any error.
FailedNow(l, r) ==
    \/ unit.hist[l][r].first = "none" /\ unit'.hist[l][r].first = "err"
    \/ /\ unit.hist[l][r].second = "none"
       /\ unit'.hist[l][r].second \in {"rate", "err"}

\* C28: in both per-repository loops an item gets at most two calls and
\* at most one back-off sleep; the second call is made only after a
\* first call that returned the rate-limit signal, at the end of that
\* one back-off sleep; a first call failing otherwise, or a failing
\* second call, leaves the item out of the results and puts the loop at
\* the top of its next iteration, which calls for the next item unless
\* the context is done.
C28_RetryOnce ==
    [][\A l \in Loops, r \in StoreRepos :
          /\ unit'.hist[l][r].calls <= 2
          /\ unit'.hist[l][r].backoffs <= 1
          /\ unit'.hist[l][r].calls = 2 /\ unit.hist[l][r].calls = 1 =>
                /\ unit.pc = l /\ unit.at = "backoff" /\ unit.cur = r
                /\ unit.hist[l][r].first = "rate"
                /\ unit.hist[l][r].backoffs = 1
          /\ FailedNow(l, r) =>
                /\ unit'.pc = l /\ unit'.at = "top"
                /\ r \notin unit'.got
                /\ unit'.todo = unit.todo /\ unit'.got = unit.got
          /\ /\ unit.pc = l /\ unit.at = "top" /\ unit.todo # {}
             /\ ~unit.ctxDone /\ ~unit'.ctxDone
             => /\ unit'.pc = l /\ unit'.at = "wait"
                /\ unit'.cur \in unit.todo
                /\ unit'.hist[l][unit'.cur].calls = 1]_vars

C28_Witness ==
    /\ unit.kind = "steps" /\ unit.pc = "lookup" /\ unit.at = "wait"
    /\ unit.cur = "B"
    /\ unit.hist["detail"]["A"].calls = 2
    /\ unit.hist["detail"]["A"].second = "ok"
    /\ unit.hist["detail"]["B"].first = "ok"
    /\ unit.hist["lookup"]["A"].calls = 2
    /\ unit.hist["lookup"]["A"].backoffs = 1
    /\ unit.hist["lookup"]["A"].second = "rate"

\* C29: in the adoption loop the fixed delay is slept after every record,
\* however its lookup ended: a lookup for a record is never made right
\* after a call or a back-off for another record, only after that
\* record's delay.
C29_DelayBetweenRecords ==
    unit.kind = "steps" =>
        \A i \in DOMAIN unit.seq["lookup"] :
            LET s == unit.seq["lookup"]
            IN  i > 1 /\ s[i][1] = "call" /\ s[i - 1][2] # s[i][2] =>
                   s[i - 1][1] = "delay"

\* C30: a run that was launched ends before its upsert phase only when
\* the crawl failed; after any other failure, a storage error of a job
\* state transition included, it goes on through all its steps: a run
\* that reaches the release without a crawl error has gone through to
\* the snapshot step, and the records it upserted are still there.
C30_EarlyEndOnlyOnCrawlFailure ==
    \A j \in JobIds :
        run[j].pc = "release" /\ run[j].err = "" =>
            /\ "snapshot" \in run[j].phases
            /\ run[j].upOK \subseteq Present(projects)

\* C31: when every send returns and the timeout of the run fires, a run
\* releases the flag, after which a start attempt finds it free, also
\* when the search is answered with a rate limit every time.
C31_GuardReleased ==
    (unit.kind = "steps" /\ unit.hang \notin {"webhook", "smtp"})
        ~> (~refreshRunning /\ unit.pc = "done"
            /\ CanAcquire(refreshRunning))

C31_Witness ==
    /\ unit.kind = "steps" /\ unit.pc = "done" /\ ~refreshRunning
    /\ unit.hang = "none" /\ unit.ctxDone
    /\ unit.backoffs = MaxRateLimits /\ unit.page = 1
    /\ \A l \in Loops, r \in StoreRepos : unit.hist[l][r].calls = 0

\* The hits of the pages 1..k of a source in the order of the listing,
\* and the path of the first of them that is in repository r (0: none).
RECURSIVE AllHits(_, _)
AllHits(src, k) ==
    IF k = 0 THEN <<>> ELSE AllHits(src, k - 1) \o HitsOn(src, k)
FirstPath(hs, r) ==
    LET at == {i \in DOMAIN hs : hs[i].repo = r}
    IN  IF at = {} THEN 0
        ELSE hs[CHOOSE i \in at : \A k \in at : i <= k].path

\* C32: the map a crawl returns without error has an entry for exactly
\* the repositories with a hit on a page it fetched, and the entry is
\* the path of the first hit of the repository in page order and item
\* order.
C32_FirstPathKept ==
    ReturnedOK =>
        \A r \in Repos :
            unit.repos[r] = FirstPath(AllHits(unit.src, CountOf("ok")), r)

C32_Witness ==
    /\ ReturnedOK /\ CountOf("ok") = 4 /\ CountOf("rate") > 0
    /\ unit.repos = [r \in Repos |-> CASE r = "A" -> 1 [] r = "B" -> 2
                                       [] r = "C" -> 5]

\* C33: whatever creates and updates were made, the fan-out finds no
\* enabled config of a known type whose provider cannot be constructed.
\* (Checked with SENDGRID_API_KEY set.)
C33_NoValidationFailureInRun ==
    unit.kind = "configs" /\ unit.built /\ unit.apiKey =>
        \A c \in unit.broken : configs[c].type \notin {"slack", "email"}

\* C34: a send of the chat provider fails exactly when the webhook call
\* errors or answers with a status outside 200..299; every status in
\* 200..299 is a success and is logged as sent.
C34_SuccessIs2xx ==
    unit.kind = "send" =>
        \A i \in 1..Len(unit.results) :
            LET res == unit.results[i]
                ok  == res # NoResponse /\ res \in 200..299
            IN  /\ (unit.errs[i] = "") <=> ok
                /\ notifLog[i].status = (IF ok THEN "sent" ELSE "failed")

\* C35: across runs over unchanged external data (every stored record is
\* found again by the latest run) and unchanged configs, no pair of a
\* config and a record has more than one `sent` row in the notification
\* log.
C35_SentOncePerPair ==
    (\A r \in Present(projects) : projects[r].lastSeen = Len(jobs)) =>
        \A i, k \in 1..Len(notifLog) :
            /\ notifLog[i].status = "sent" /\ notifLog[k].status = "sent"
            /\ notifLog[i].config = notifLog[k].config
            /\ notifLog[i].project = notifLog[k].project
            => i = k

\* C36: in every reachable state each job row has started-at set iff its
\* state is running, completed or failed; completed-at set iff its state
\* is completed or failed; a non-zero records-found count only if it is
\* completed; a non-empty error detail only if it is failed.
C36_JobRowFields ==
    \A j \in DOMAIN jobs :
        /\ jobs[j].started <=>
               jobs[j].status \in {"running", "completed", "failed"}
        /\ jobs[j].completed <=> jobs[j].status \in {"completed", "failed"}
        /\ jobs[j].found # 0 => jobs[j].status = "completed"
        /\ jobs[j].err # "" => jobs[j].status = "failed"

C36_Witness ==
    /\ Len(jobs) = 2
    /\ jobs[1].status = "completed" /\ jobs[1].found > 0
    /\ jobs[1].started /\ jobs[1].completed /\ jobs[1].err = ""
    /\ jobs[2].status = "failed" /\ jobs[2].err # "" /\ jobs[2].found = 0
    /\ jobs[2].started /\ jobs[2].completed

\* C37: an answer of the search API is handled as a rate limit (back-off
\* and retry of the page) exactly when it carries the rate-limit status;
\* every other non-success answer, whatever its body, makes the crawler
\* fail at once; and the crawler fails only on cancellation or on such an
\* answer.  (Checked for answers that arrive and whose 200 bodies decode.)
C37_RateLimitByStatus ==
    unit.kind = "resp"
    /\ (\A i \in 1..Len(unit.hist) :
            /\ unit.hist[i].resp.status # NoResponse
            /\ unit.hist[i].resp.status = StatusOK
                   => unit.hist[i].resp.body = "json")
    => /\ \A i \in 1..Len(unit.hist) :
            LET h == unit.hist[i]
            IN  /\ h.handling = "retry" <=> h.resp.status = RateLimitStatus
                /\ h.resp.status \notin {StatusOK, RateLimitStatus}
                       => h.handling = "fail" /\ i = Len(unit.hist)
       /\ unit.pc = "failed" =>
              \/ unit.reason = "cancelled"
              \/ unit.hist[Len(unit.hist)].resp.status
                     \notin {StatusOK, RateLimitStatus}

\* C38 as stated: whenever a status query reports is_running = false, the
\* last job it reports, if any, is completed or failed.
C38_IdleMeansTerminal ==
    unit.kind = "status" /\ unit.pc = "reported" /\ ~unit.isRunning
    /\ unit.job # 0
    => unit.status \in {"completed", "failed"}

\* C38 (amended): a status query that reports is_running = false reports
\* a last job that is completed or failed unless the guard was acquired
\* between the query's read of the flag and its read of the job row, or
\* the run of that job has ended after a storage error on the job row
\* (StartRefreshJob failed: still pending; CompleteRefreshJob or
\* FailRefreshJob failed: still running).
C38_IdleMeansTerminalOrStuck ==
    unit.kind = "status" /\ unit.pc = "reported" /\ ~unit.isRunning
    /\ unit.job # 0
    => \/ unit.status \in {"completed", "failed"}
       \/ unit.acqAtJob > unit.acqAtFlag
       \/ /\ unit.status = "pending"
          /\ run[unit.job].pc = "done" /\ ~run[unit.job].stuck
       \/ /\ unit.status = "running"
          /\ run[unit.job].pc = "done" /\ run[unit.job].stuck

C38_Witness ==
    /\ unit.kind = "status" /\ unit.pc = "reported" /\ ~unit.isRunning
    /\ unit.job = 2 /\ unit.status = "pending"
    /\ unit.acqAtFlag = 1 /\ unit.acqAtJob = 2
    /\ jobs[1].status = "completed"

C40_RecordsKept ==
    [][/\ \A r \in Present(projects) :
              /\ r \in Present(projects')
              /\ projects'[r].id = projects[r].id
              /\ projects'[r].firstSeen = projects[r].firstSeen
       /\ \A r, q \in Present(projects') :
              projects'[r].id = projects'[q].id => r = q]_vars

C40_Witness ==
    /\ Len(jobs) = 2
    /\ jobs[1].status = "completed" /\ jobs[1].found = 1
    /\ jobs[2].status = "completed" /\ jobs[2].found = 1
    /\ Present(projects) = {"A", "B"}
    /\ projects["A"].id = 1 /\ projects["A"].firstSeen = 1
    /\ projects["A"].lastSeen = 1
    /\ projects["B"].id = 2 /\ projects["B"].firstSeen = 2
====
